---- MODULE Spec2Model ----
(***************************************************************************)
(* Ingestion core of the BitFunnel index: Slice counters, Shard slice       *)
(* management, Ingestor Add/Delete, and deferred recycling under tokens.    *)
(*                                                                         *)
(* A slice buffer is identified with the Slice that owns it (the buffer's   *)
(* trailing word points back to the Slice), a slice-buffer vector is an     *)
(* object with an identity (its position in `vectors`), and a token is      *)
(* identified with its holder, since a holder has at most one at a time.    *)
(***************************************************************************)
EXTENDS Integers, Sequences, FiniteSets, TLC

\* ---------------------------------------------------------------- bounds
\* Documents per slice (Shard::GetSliceCapacity()).
SliceCapacity == 2
\* Slices a shard may create before the model stops creating more.
MaxSlices == 2
\* Caller-chosen document ids are 1..MaxDocId.
MaxDocId == 1
\* Threads calling Ingestor::Add / Ingestor::Delete.
NumThreads == 2
\* Readers that iterate the published slice-buffer vector under a token.
NumReaders == 1
\* References a test takes on one slice at a time.
MaxRefCount == 2
\* Ranks are 0..MaxRankValue (c_maxRankValue).
MaxRankValue == 1
\* Rows per rank in a term table are 0..MaxRowCount.
MaxRowCount == 2
\* Bytes per DocTable record in a schema are 0..MaxRecordSize.
MaxRecordSize == 1
\* Slice buffer sizes in bytes are 0..MaxBufferSize.
MaxBufferSize == 160
\* Query parser inputs have at most MaxInputLen characters.
MaxInputLen == 4

SliceIds == 1..MaxSlices
DocIds == 1..MaxDocId
Threads == 1..NumThreads
Readers == (NumThreads + 1)..(NumThreads + NumReaders)
Null == 0
\* The DocumentMap entry of an id that is not mapped.
NoHandle == [slice |-> Null, index |-> Null]
\* The TokenManager before Shutdown is called.
NoShutdown == [state |-> "no", tracker |-> {}, outstanding |-> {}]

VARIABLES
    slices,        \* SliceId -> the Slice object (counters, refCount, lifetime)
    activeSlice,   \* Shard::m_activeSlice (Null or a SliceId)
    vectors,       \* every slice-buffer vector ever allocated, by identity
    sliceBuffers,  \* Shard::m_sliceBuffers: identity of the published vector
    inUse,         \* SliceBufferAllocator: buffers allocated and not released
    documentMap,   \* DocId -> handle (slice, index); NoHandle when absent
    tokens,        \* holders with an outstanding token
    queue,         \* Recycler queue of DeferredSliceListDelete items
    threads,       \* per-thread position inside Add / Delete
    readers,       \* per-reader vector loaded under its token
    deleteLock,    \* Ingestor::m_deleteDocumentLock owner (Null when free)
    allocLog,      \* history: DocIndexes returned by each slice, in order
    commitTrue,    \* history: number of CommitDocument calls that returned true
    released,      \* history: number of times each slice's buffer was released
    lastCall,      \* history: the last direct call, its inputs and its outcome
    underLock,     \* history: allocator / recycler calls made under m_slicesLock
    recycleCalls,  \* history: number of Shard::RecycleSlice calls per slice
    buffer,        \* the bytes of one slice buffer, for the layout of a shard
    shutdown       \* TokenManager::Shutdown: state "no", "waiting" or
                   \* "returned", the holders its tracker still waits for,
                   \* and (history) the holders outstanding when it was called

vars == <<slices, activeSlice, vectors, sliceBuffers, inUse, documentMap, tokens,
          queue, threads, readers, deleteLock, allocLog, commitTrue, released,
          lastCall, underLock, recycleCalls, buffer, shutdown>>

shardVars == <<activeSlice, vectors, sliceBuffers, inUse, documentMap, tokens,
               queue, threads, readers, deleteLock, released, underLock,
               recycleCalls, buffer, shutdown>>

\* ---------------------------------------------------------------- logging
\* LogAssertB(condition, message): a failed condition is a fatal assertion.
LogAssertB(condition) == IF condition THEN "none" ELSE "FatalAssert"

\* ------------------------------------------------------------------ Slice
\* Slice that has not been constructed yet.
NoSlice ==
    [state |-> "unborn", capacity |-> SliceCapacity, unallocated |-> 0,
     commitPending |-> 0, expired |-> 0, refCount |-> 0, activeRow |-> {}]

\* Slice::Slice(shard): counters after construction; the RowTables are
\* initialised with the document-active row set to 1 in every column.
NewSlice ==
    [state |-> "live", capacity |-> SliceCapacity, unallocated |-> SliceCapacity,
     commitPending |-> 0, expired |-> 0, refCount |-> 1,
     activeRow |-> 0..(SliceCapacity - 1)]

\* Slice::IsExpired
IsExpired(sl) == sl.expired = sl.capacity

\* Mutant: the column is handed out without being taken from the unallocated pool.
TryAllocateDocument_KeepUnallocated(sl) ==
    IF sl.unallocated = 0
    THEN [ok |-> FALSE, index |-> Null, slice |-> sl]
    ELSE [ok |-> TRUE, index |-> sl.capacity - sl.unallocated,
          slice |-> [sl EXCEPT !.commitPending = @ + 1]]

\* Mutant: the index is computed after the decrement of m_unallocatedCount.
TryAllocateDocument_IndexAfterDecrement(sl) ==
    IF sl.unallocated = 0
    THEN [ok |-> FALSE, index |-> Null, slice |-> sl]
    ELSE [ok |-> TRUE, index |-> sl.capacity - (sl.unallocated - 1),
          slice |-> [sl EXCEPT !.unallocated = @ - 1, !.commitPending = @ + 1]]

\* Slice::TryAllocateDocument(index)
TryAllocateDocument(sl) ==
    IF sl.unallocated = 0
    THEN [ok |-> FALSE, index |-> Null, slice |-> sl]
    ELSE [ok |-> TRUE, index |-> sl.capacity - sl.unallocated,
          slice |-> [sl EXCEPT !.unallocated = @ - 1, !.commitPending = @ + 1]]

\* Mutant: full-on-commit ignores the columns that are still unallocated.
CommitDocument_IgnoreUnallocated(sl) ==
    LET err == LogAssertB(sl.commitPending > 0)
    IN  IF err # "none"
        THEN [err |-> err, ret |-> FALSE, slice |-> sl]
        ELSE [err |-> "none", ret |-> (sl.commitPending - 1 = 0),
              slice |-> [sl EXCEPT !.commitPending = @ - 1]]

\* Mutant: the column is reported committed but stays pending.
CommitDocument_StaysPending(sl) ==
    LET err == LogAssertB(sl.commitPending > 0)
    IN  IF err # "none"
        THEN [err |-> err, ret |-> FALSE, slice |-> sl]
        ELSE [err |-> "none",
              ret |-> (sl.unallocated + (sl.commitPending - 1) = 0),
              slice |-> sl]

\* Mutant: the pending count is decremented before the assertion is made.
CommitDocument_DecrementFirst(sl) ==
    LET after == [sl EXCEPT !.commitPending = @ - 1]
        err == LogAssertB(sl.commitPending > 0)
    IN  IF err # "none"
        THEN [err |-> err, ret |-> FALSE, slice |-> after]
        ELSE [err |-> "none",
              ret |-> (after.unallocated + after.commitPending = 0),
              slice |-> after]

\* Slice::CommitDocument
CommitDocument(sl) ==
    LET err == LogAssertB(sl.commitPending > 0)
    IN  IF err # "none"
        THEN [err |-> err, ret |-> FALSE, slice |-> sl]
        ELSE [err |-> "none",
              ret |-> (sl.unallocated + (sl.commitPending - 1) = 0),
              slice |-> [sl EXCEPT !.commitPending = @ - 1]]

\* Mutant: the committed-count assertion is missing.
ExpireDocument_NoAssert(sl) ==
    [err |-> "none", ret |-> (sl.expired + 1 = sl.capacity),
     slice |-> [sl EXCEPT !.expired = @ + 1]]

\* Mutant: the counter is incremented before the assertion is evaluated.
ExpireDocument_IncrementFirst(sl) ==
    LET committedCount == sl.capacity - sl.unallocated - sl.commitPending
        err == LogAssertB(sl.expired < committedCount)
    IN  [err |-> err, ret |-> (err = "none" /\ sl.expired + 1 = sl.capacity),
         slice |-> [sl EXCEPT !.expired = @ + 1]]

\* Mutant: true is reported when every committed column has expired.
ExpireDocument_AllCommittedExpired(sl) ==
    LET committedCount == sl.capacity - sl.unallocated - sl.commitPending
        err == LogAssertB(sl.expired < committedCount)
    IN  IF err # "none"
        THEN [err |-> err, ret |-> FALSE, slice |-> sl]
        ELSE [err |-> "none", ret |-> (sl.expired + 1 = committedCount),
              slice |-> [sl EXCEPT !.expired = @ + 1]]

\* Slice::ExpireDocument
ExpireDocument(sl) ==
    LET committedCount == sl.capacity - sl.unallocated - sl.commitPending
        err == LogAssertB(sl.expired < committedCount)
    IN  IF err # "none"
        THEN [err |-> err, ret |-> FALSE, slice |-> sl]
        ELSE [err |-> "none", ret |-> (sl.expired + 1 = sl.capacity),
              slice |-> [sl EXCEPT !.expired = @ + 1]]

NoCall == [op |-> "none", slice |-> Null, before |-> NoSlice, err |-> "none",
           ret |-> FALSE, index |-> Null]

\* ------------------------------------------------- direct calls on a Slice
\* A test constructs Slices on a shard and calls them directly, in any order.
SliceInit ==
    /\ slices = [s \in SliceIds |-> NewSlice]
    /\ activeSlice = Null
    /\ vectors = << [content |-> <<>>, state |-> "live"] >>
    /\ sliceBuffers = 1
    /\ inUse = MaxSlices
    /\ documentMap = [d \in DocIds |-> NoHandle]
    /\ tokens = {}
    /\ queue = <<>>
    /\ threads = [t \in Threads |-> Null]
    /\ readers = [r \in Readers |-> Null]
    /\ deleteLock = Null
    /\ allocLog = [s \in SliceIds |-> <<>>]
    /\ commitTrue = [s \in SliceIds |-> 0]
    /\ released = [s \in SliceIds |-> 0]
    /\ lastCall = NoCall
    /\ underLock = {}
    /\ recycleCalls = [s \in SliceIds |-> 0]
    /\ buffer = <<>>
    /\ shutdown = NoShutdown

CallTryAllocateDocument(s) ==
    LET r == TryAllocateDocument(slices[s])
    IN  /\ slices' = [slices EXCEPT ![s] = r.slice]
        /\ allocLog' = IF r.ok THEN [allocLog EXCEPT ![s] = Append(@, r.index)]
                       ELSE allocLog
        /\ lastCall' = [op |-> "TryAllocateDocument", slice |-> s,
                        before |-> slices[s], err |-> "none", ret |-> r.ok,
                        index |-> r.index]
        /\ UNCHANGED <<commitTrue, shardVars>>

CallCommitDocument(s) ==
    LET r == CommitDocument(slices[s])
    IN  /\ slices' = [slices EXCEPT ![s] = r.slice]
        /\ commitTrue' = IF r.ret THEN [commitTrue EXCEPT ![s] = @ + 1]
                         ELSE commitTrue
        /\ lastCall' = [op |-> "CommitDocument", slice |-> s,
                        before |-> slices[s], err |-> r.err, ret |-> r.ret,
                        index |-> Null]
        /\ UNCHANGED <<allocLog, shardVars>>

CallExpireDocument(s) ==
    LET r == ExpireDocument(slices[s])
    IN  /\ slices' = [slices EXCEPT ![s] = r.slice]
        /\ lastCall' = [op |-> "ExpireDocument", slice |-> s,
                        before |-> slices[s], err |-> r.err, ret |-> r.ret,
                        index |-> Null]
        /\ UNCHANGED <<allocLog, commitTrue, shardVars>>

SliceNext ==
    \E s \in SliceIds :
        \/ CallTryAllocateDocument(s)
        \/ CallCommitDocument(s)
        \/ CallExpireDocument(s)

SliceSpec == SliceInit /\ [][SliceNext]_vars

\* ------------------------------------------------------------------ Shard
IdleThread ==
    [pc |-> "idle", op |-> "none", id |-> Null, slice |-> Null, index |-> Null,
     failure |-> "none", expireCalled |-> FALSE, oldVec |-> Null,
     isFound |-> FALSE]

IdleReader == [vec |-> Null]

\* Shard::Shard and Ingestor::Ingestor: no slice, an empty published vector.
NewShard ==
    /\ slices = [s \in SliceIds |-> NoSlice]
    /\ activeSlice = Null
    /\ vectors = << [content |-> <<>>, state |-> "live"] >>
    /\ sliceBuffers = 1
    /\ inUse = 0
    /\ documentMap = [d \in DocIds |-> NoHandle]
    /\ tokens = {}
    /\ queue = <<>>
    /\ threads = [t \in Threads |-> IdleThread]
    /\ readers = [r \in Readers |-> IdleReader]
    /\ deleteLock = Null
    /\ allocLog = [s \in SliceIds |-> <<>>]
    /\ commitTrue = [s \in SliceIds |-> 0]
    /\ released = [s \in SliceIds |-> 0]
    /\ underLock = {}
    /\ recycleCalls = [s \in SliceIds |-> 0]
    /\ buffer = <<>>
    /\ shutdown = NoShutdown

\* The state after construction, before any call.
Init == NewShard /\ lastCall = NoCall

\* Number of slices constructed so far; the next one gets the next id.
SlicesCreated == Cardinality({s \in SliceIds : slices[s].state # "unborn"})

\* Shard::AllocateSliceBuffer / ISliceBufferAllocator::Allocate
AllocateSliceBuffer(n) == n + 1

\* Mutant: the buffer is not handed back to the allocator.
ReleaseSliceBuffer_Leak(n) == n

\* Shard::ReleaseSliceBuffer / ISliceBufferAllocator::Release
ReleaseSliceBuffer(n) == n - 1

\* TokenManager: the snapshot a DeferredSliceListDelete takes when it is built.
StartTracker(outstanding) == outstanding

\* DeferredSliceListDelete(slice, oldSlices, tokenManager)
DeferredSliceListDelete(slice, oldSlices) ==
    [slice |-> slice, vec |-> oldSlices, snapshot |-> StartTracker(tokens)]

\* Recycler::ScheduleRecyling
ScheduleRecyling(q, item) == Append(q, item)

\* The allocator and recycler calls of a piece of code that are made while
\* m_slicesLock is held (a std::lock_guard is in scope).
CallsUnderLock(held, calls) == IF held THEN calls ELSE {}

\* Mutant: the bit of an expired column is left set.
ClearActiveBit_Keep(sl, index) == sl

\* DocumentHandleInternal::Expire: the column's document-active bit is
\* cleared (soft delete).
ClearActiveBit(sl, index) == [sl EXCEPT !.activeRow = @ \ {index}]

\* Mutant: a full active slice is asked again instead of being replaced.
NeedNewSlice_OnlyWhenNull(active, sl) == active = Null

\* Mutant: every allocation starts a new slice.
NeedNewSlice_Always(active, sl) == TRUE

\* Mutant: a new slice is made as soon as the active one is down to its
\* last free column.
NeedNewSlice_BeforeLastColumn(active, sl) ==
    active = Null \/ sl[active].unallocated <= 1

\* Shard::AllocateDocument: the condition under which a new slice is created.
NeedNewSlice(active, sl) ==
    active = Null \/ ~TryAllocateDocument(sl[active]).ok

Handles == [slice : SliceIds, index : 0..(SliceCapacity - 1)]

\* Mutant: the new buffer is put in front of the copied ones.
CopyAndPushBack_Front(content, b) == <<b>> \o content

\* Shard::CreateNewActiveSlice: the old vector is copied and the buffer of
\* the new slice is pushed back.
CopyAndPushBack(content, b) == Append(content, b)

\* Shard::CreateNewActiveSlice, followed by the first allocation on the new
\* slice (the LogAssertB of AllocateDocument). Called with m_slicesLock held:
\* new Slice(*this) takes the buffer from the allocator and ScheduleRecyling
\* is called before the caller's lock_guard goes out of scope.
CreateNewActiveSlice(h) ==
    LET n == SlicesCreated + 1
        r == TryAllocateDocument(NewSlice)
        oldSlices == sliceBuffers
        newSlices == [content |-> CopyAndPushBack(vectors[sliceBuffers].content, n),
                      state |-> "live"]
    IN  /\ n <= MaxSlices
        /\ LogAssertB(r.ok) = "none"
        /\ inUse' = AllocateSliceBuffer(inUse)
        /\ vectors' = Append(vectors, newSlices)
        /\ sliceBuffers' = Len(vectors) + 1
        /\ activeSlice' = n
        /\ queue' = ScheduleRecyling(queue, DeferredSliceListDelete(Null, oldSlices))
        /\ slices' = [slices EXCEPT ![n] = r.slice]
        /\ allocLog' = [allocLog EXCEPT ![n] = Append(@, r.index)]
        /\ h = [slice |-> n, index |-> r.index]
        /\ underLock' = underLock \cup
               CallsUnderLock(TRUE, {"Allocate", "ScheduleRecyling"})

\* Shard::AllocateDocument(id), under m_slicesLock; h is the handle returned.
AllocateDocument(h) ==
    IF NeedNewSlice(activeSlice, slices)
    THEN CreateNewActiveSlice(h)
    ELSE LET r == TryAllocateDocument(slices[activeSlice])
         IN  /\ slices' = [slices EXCEPT ![activeSlice] = r.slice]
             /\ allocLog' = [allocLog EXCEPT ![activeSlice] = Append(@, r.index)]
             /\ h = [slice |-> activeSlice, index |-> r.index]
             /\ UNCHANGED <<activeSlice, vectors, sliceBuffers, inUse, queue,
                            underLock>>

\* Shard::GetSliceBuffers
GetSliceBuffers == sliceBuffers

\* Shard::RecycleSlice: the vector rebuilt without the slice's buffer.
RemoveSliceBuffer(content, s) == SelectSeq(content, LAMBDA b : b # s)

\* Mutant: the rebuilt vector is not published; the old one stays current.
PublishRecycled_KeepOld(oldSlices, newSlices) == oldSlices

\* Shard::RecycleSlice: m_sliceBuffers = newSlices
PublishRecycled(oldSlices, newSlices) == newSlices

\* Mutant: the slice is not asked whether it is fully expired.
RecycleSliceError_NoExpiredCheck(sl, content, s) ==
    IF Len(content) # Len(RemoveSliceBuffer(content, s)) + 1
    THEN "RecoverableError"
    ELSE "none"

\* Shard::RecycleSlice: which error, if any, the locked section throws.
RecycleSliceError(sl, content, s) ==
    IF ~IsExpired(sl) THEN "RecoverableError"
    ELSE IF Len(content) # Len(RemoveSliceBuffer(content, s)) + 1
         THEN "RecoverableError"
         ELSE "none"

\* ------------------------------------------------------------ DocumentMap
\* DocumentMap::Find
Find(map, id) == map[id] # NoHandle

\* Mutant: a duplicate id replaces the earlier entry.
DocumentMapAdd_Overwrite(map, id, handle) ==
    [err |-> "none", map |-> [map EXCEPT ![id] = handle]]

\* Mutant: the entry is inserted and the call then throws.
DocumentMapAdd_ThrowsAfterInsert(map, id, handle) ==
    IF Find(map, id) THEN [err |-> "DuplicateId", map |-> map]
    ELSE [err |-> "RecoverableError", map |-> [map EXCEPT ![id] = handle]]

\* DocumentMap::Add: a duplicate id is refused.
DocumentMapAdd(map, id, handle) ==
    IF Find(map, id) THEN [err |-> "DuplicateId", map |-> map]
    ELSE [err |-> "none", map |-> [map EXCEPT ![id] = handle]]

\* DocumentMap::Delete
DocumentMapDelete(map, id) == [map EXCEPT ![id] = NoHandle]

\* Ingestor::Contains
Contains(id) == Find(documentMap, id)

\* ----------------------------------------------------------- TokenManager
\* TokenManager::RequestToken
RequestToken(h) == tokens' = tokens \cup {h}

\* Token::~Token: the holder leaves every snapshot that was tracking it.
ReturnToken(h) ==
    /\ tokens' = tokens \ {h}
    /\ queue' = [i \in DOMAIN queue |-> [queue[i] EXCEPT !.snapshot = @ \ {h}]]
    /\ shutdown' = [shutdown EXCEPT !.tracker = @ \ {h}]

\* --------------------------------------------------------------- Ingestor
\* The call of thread t ends, by a return or by an exception leaving it.
Finish(t) == threads' = [threads EXCEPT ![t] = IdleThread]

\* The call of thread t goes on from the position in rec.
Continue(t, rec) == threads' = [threads EXCEPT ![t] = rec]

\* Ingestor::Add, up to and including Shard::AllocateDocument.
AddAllocate(t, id) ==
    /\ threads[t].pc = "idle"
    /\ \E h \in Handles :
          /\ AllocateDocument(h)
          /\ Continue(t, [IdleThread EXCEPT !.pc = "ingest", !.op = "Add",
                            !.id = id, !.slice = h.slice, !.index = h.index])
    /\ UNCHANGED <<documentMap, tokens, readers, deleteLock, commitTrue,
                   released, lastCall, recycleCalls, buffer, shutdown>>

\* document.Ingest(handle) throws (a fact with no row, for instance): the call
\* is outside the try block of Ingestor::Add, so the exception leaves Add.
AddIngestThrows(t) ==
    /\ threads[t].pc = "ingest"
    /\ Finish(t)
    /\ UNCHANGED <<slices, activeSlice, vectors, sliceBuffers, inUse, documentMap,
                   tokens, queue, readers, deleteLock, allocLog, commitTrue,
                   released, lastCall, underLock,
                   recycleCalls, buffer, shutdown>>

\* DocumentHandle::Activate: the column's document-active bit is set.
Activate(sl, index) == [sl EXCEPT !.activeRow = @ \cup {index}]

\* document.Ingest(handle) returns, then handle.Activate() and
\* handle.GetSlice()->CommitDocument(), all outside the try block. Ingest
\* and Activate write only into the column the thread has just been given.
AddIngestCommit(t) ==
    LET s == threads[t].slice
        r == CommitDocument(Activate(slices[s], threads[t].index))
    IN  /\ threads[t].pc = "ingest"
        /\ slices' = [slices EXCEPT ![s] = r.slice]
        /\ commitTrue' = IF r.ret THEN [commitTrue EXCEPT ![s] = @ + 1]
                         ELSE commitTrue
        /\ IF r.err = "none"
           THEN Continue(t, [threads[t] EXCEPT !.pc = "map"])
           ELSE Finish(t)
        /\ UNCHANGED <<activeSlice, vectors, sliceBuffers, inUse, documentMap,
                       tokens, queue, readers, deleteLock, allocLog, released,
                       lastCall, underLock,
                   recycleCalls, buffer, shutdown>>

\* m_documentMap->Add(handle); a failure enters the catch block, which calls
\* handle.Expire().
AddMap(t) ==
    LET id == threads[t].id
        r == DocumentMapAdd(documentMap, id,
                            [slice |-> threads[t].slice, index |-> threads[t].index])
    IN  /\ threads[t].pc = "map"
        /\ documentMap' = r.map
        /\ IF r.err = "none"
           THEN Finish(t)
           ELSE Continue(t, [threads[t] EXCEPT !.pc = "exp_expire",
                               !.failure = r.err, !.expireCalled = TRUE])
        /\ UNCHANGED <<slices, activeSlice, vectors, sliceBuffers, inUse, tokens,
                       queue, readers, deleteLock, allocLog, commitTrue, released,
                       lastCall, underLock,
                   recycleCalls, buffer, shutdown>>

\* Mutant: the mapping is expired but left in the DocumentMap.
DeleteMapping_KeepEntry(map, id) == map

\* Ingestor::Delete: what happens to the DocumentMap under m_deleteDocumentLock.
DeleteMapping(map, id) ==
    IF Find(map, id) THEN DocumentMapDelete(map, id) ELSE map

\* Mutant: a Delete of an id that is not mapped is reported as a failure.
MissingEntryFailure_Error == "RecoverableError"

\* Ingestor::Delete: a missing entry is not treated as an error.
MissingEntryFailure == "none"

\* Ingestor::Delete up to location.Expire(): RequestToken, lock
\* m_deleteDocumentLock, Find, and when found m_documentMap->Delete(id). A
\* Delete that waits for the lock is a Delete that has not started yet.
DeleteFind(t, id) ==
    LET isFound == Find(documentMap, id)
    IN  /\ threads[t].pc = "idle"
        /\ RequestToken(t)
        /\ deleteLock = Null
        /\ deleteLock' = t
        /\ documentMap' = DeleteMapping(documentMap, id)
        /\ Continue(t, IF isFound
                       THEN [IdleThread EXCEPT !.pc = "exp_expire", !.op = "Delete",
                               !.id = id, !.isFound = TRUE,
                               !.slice = documentMap[id].slice,
                               !.index = documentMap[id].index,
                               !.expireCalled = TRUE]
                       ELSE [IdleThread EXCEPT !.pc = "del_return",
                               !.op = "Delete", !.id = id,
                               !.isFound = FALSE,
                               !.failure = MissingEntryFailure])
        /\ UNCHANGED <<slices, activeSlice, vectors, sliceBuffers, inUse, queue,
                       readers, allocLog, commitTrue, released, lastCall, underLock,
                   recycleCalls, buffer, shutdown>>

\* Ingestor::Delete returns isFound, or an exception of location.Expire()
\* leaves it: the lock guard and the token go out of scope.
DeleteReturn(t) ==
    /\ threads[t].pc = "del_return"
    /\ deleteLock' = Null
    /\ ReturnToken(t)
    /\ Finish(t)
    /\ UNCHANGED <<slices, activeSlice, vectors, sliceBuffers, inUse, documentMap,
                   readers, allocLog, commitTrue, released, lastCall, underLock,
                   recycleCalls, buffer>>

\* ------------------------------------------------- DocumentHandle::Expire
\* Where handle.Expire() returns to. The catch block of Add logs and swallows
\* a failure of Expire and re-throws the original one; Delete lets a failure
\* of Expire propagate.
AfterExpire(t, err) ==
    IF threads[t].op = "Add"
    THEN Finish(t)
    ELSE Continue(t, [threads[t] EXCEPT !.pc = "del_return", !.failure = err])

\* Slice::DecrementRefCount: --m_refCount. Every caller holds a reference, so
\* the counter is at least 1 here and the unsigned decrement cannot wrap.
DecrementRefCount(sl) == [sl EXCEPT !.refCount = @ - 1]

\* Slice::IncrementRefCount
IncrementRefCount(sl) == [sl EXCEPT !.refCount = @ + 1]

\* Mutant: the slice is recycled while one reference is left.
ShouldRecycle_AtOne(newRefCount) == newRefCount <= 1

\* Slice::DecrementRefCount: if (newRefCount == 0) RecycleSlice(*slice)
ShouldRecycle(newRefCount) == newRefCount = 0

\* DocumentHandle::Expire: the column's bit is cleared, then
\* m_slice->ExpireDocument(); when that reports the slice fully expired the
\* handle gives up the slice's reference with Slice::DecrementRefCount, which
\* calls Shard::RecycleSlice when the count reaches 0.
Expire(t) ==
    LET s == threads[t].slice
        r == ExpireDocument(ClearActiveBit(slices[s], threads[t].index))
        sl == IF r.ret THEN DecrementRefCount(r.slice) ELSE r.slice
    IN  /\ threads[t].pc = "exp_expire"
        /\ slices' = [slices EXCEPT ![s] = sl]
        /\ recycleCalls' = IF r.ret /\ ShouldRecycle(sl.refCount)
                           THEN [recycleCalls EXCEPT ![s] = @ + 1]
                           ELSE recycleCalls
        /\ IF r.err # "none" THEN AfterExpire(t, r.err)
           ELSE IF r.ret /\ ShouldRecycle(sl.refCount)
                THEN Continue(t, [threads[t] EXCEPT !.pc = "recycle_locked"])
                ELSE AfterExpire(t, "none")
        /\ UNCHANGED <<activeSlice, vectors, sliceBuffers, inUse, documentMap,
                       tokens, queue, readers, deleteLock, allocLog, commitTrue,
                       released, lastCall, underLock, buffer, shutdown>>

\* Shard::RecycleSlice, the section under m_slicesLock.
RecycleSliceLocked(t) ==
    LET s == threads[t].slice
        oldSlices == sliceBuffers
        content == vectors[oldSlices].content
        err == RecycleSliceError(slices[s], content, s)
        newSlices == [content |-> RemoveSliceBuffer(content, s), state |-> "live"]
    IN  /\ threads[t].pc = "recycle_locked"
        /\ IF err # "none"
           THEN /\ AfterExpire(t, err)
                /\ UNCHANGED <<vectors, sliceBuffers, activeSlice>>
           ELSE /\ vectors' = Append(vectors, newSlices)
                /\ sliceBuffers' = PublishRecycled(oldSlices, Len(vectors) + 1)
                /\ activeSlice' = IF activeSlice = s THEN Null ELSE activeSlice
                /\ Continue(t, [threads[t] EXCEPT !.pc = "recycle_schedule",
                                                  !.oldVec = oldSlices])
        /\ UNCHANGED <<slices, inUse, documentMap, tokens, queue, readers,
                       deleteLock, allocLog, commitTrue, released,
                       lastCall, underLock,
                   recycleCalls, buffer, shutdown>>

\* Shard::RecycleSlice, after the lock: the slice and the old vector are
\* handed to the recycler.
RecycleSliceSchedule(t) ==
    /\ threads[t].pc = "recycle_schedule"
    /\ queue' = ScheduleRecyling(queue,
                    DeferredSliceListDelete(threads[t].slice, threads[t].oldVec))
    /\ underLock' = underLock \cup CallsUnderLock(FALSE, {"ScheduleRecyling"})
    /\ AfterExpire(t, "none")
    /\ UNCHANGED <<slices, activeSlice, vectors, sliceBuffers, inUse, documentMap,
                   tokens, readers, deleteLock, allocLog, commitTrue, released, lastCall, recycleCalls,
                   buffer, shutdown>>

\* ---------------------------------------------------------------- readers
\* A reader takes a token before it looks at the shard.
ReaderRequestToken(r) ==
    /\ r \notin tokens
    /\ RequestToken(r)
    /\ UNCHANGED <<slices, activeSlice, vectors, sliceBuffers, inUse, documentMap,
                   queue, threads, readers, deleteLock, allocLog, commitTrue,
                   released, lastCall, underLock,
                   recycleCalls, buffer, shutdown>>

\* The reader loads the published vector (Shard::GetSliceBuffers) and keeps
\* iterating it for as long as it holds the token.
ReaderLoad(r) ==
    /\ r \in tokens
    /\ readers[r].vec # GetSliceBuffers
    /\ readers' = [readers EXCEPT ![r].vec = GetSliceBuffers]
    /\ UNCHANGED <<slices, activeSlice, vectors, sliceBuffers, inUse, documentMap,
                   tokens, queue, threads, deleteLock, allocLog, commitTrue,
                   released, lastCall, underLock,
                   recycleCalls, buffer, shutdown>>

\* The reader drops its token and with it every pointer it loaded.
ReaderReturnToken(r) ==
    /\ r \in tokens
    /\ ReturnToken(r)
    /\ readers' = [readers EXCEPT ![r] = IdleReader]
    /\ UNCHANGED <<slices, activeSlice, vectors, sliceBuffers, inUse, documentMap,
                   threads, deleteLock, allocLog, commitTrue, released,
                   lastCall, underLock,
                   recycleCalls, buffer>>

\* --------------------------------------------------------------- Recycler
\* Slice::~Slice: the buffer goes back to the allocator.
DestroySlice(sl) == [sl EXCEPT !.state = "destroyed"]

\* The recycler thread takes the oldest item, waits until the item's tracker
\* reports that every token of its snapshot is gone, then destroys the Slice
\* (if the item carries one) and deletes the old vector.
RecyclerStep ==
    /\ queue # <<>>
    /\ Head(queue).snapshot = {}
    /\ LET item == Head(queue)
       IN  /\ queue' = Tail(queue)
           /\ vectors' = [vectors EXCEPT ![item.vec].state = "deleted"]
           /\ IF item.slice # Null
              THEN /\ slices' = [slices EXCEPT ![item.slice] = DestroySlice(@)]
                   /\ inUse' = ReleaseSliceBuffer(inUse)
                   /\ released' = [released EXCEPT ![item.slice] = @ + 1]
              ELSE UNCHANGED <<slices, inUse, released>>
    /\ UNCHANGED <<activeSlice, sliceBuffers, documentMap, tokens, threads,
                   readers, deleteLock, allocLog, commitTrue, lastCall, underLock,
                   recycleCalls, buffer, shutdown>>

Next ==
    \/ \E t \in Threads, id \in DocIds : AddAllocate(t, id)
    \/ \E t \in Threads : AddIngestCommit(t)
    \/ \E t \in Threads : AddIngestThrows(t)
    \/ \E t \in Threads : AddMap(t)
    \/ \E t \in Threads, id \in DocIds : DeleteFind(t, id)
    \/ \E t \in Threads : DeleteReturn(t)
    \/ \E t \in Threads : Expire(t)
    \/ \E t \in Threads : RecycleSliceLocked(t)
    \/ \E t \in Threads : RecycleSliceSchedule(t)
    \/ \E r \in Readers : ReaderRequestToken(r)
    \/ \E r \in Readers : ReaderLoad(r)
    \/ \E r \in Readers : ReaderReturnToken(r)
    \/ RecyclerStep

Spec == Init /\ [][Next]_vars

\* ------------------------------------------- reference counts, directly
\* A test drives one shard from a single thread: it allocates through the
\* shard, commits and expires on the slice, and takes and drops references
\* (RefCountTest). Nobody holds a token, so every snapshot is empty.

\* shard.AllocateDocument()
TestAllocateDocument ==
    /\ \E h \in Handles :
          /\ AllocateDocument(h)
          /\ lastCall' = [op |-> "AllocateDocument", slice |-> h.slice,
                          before |-> slices[h.slice], err |-> "none",
                          ret |-> TRUE, index |-> h.index]
    /\ UNCHANGED <<documentMap, tokens, threads, readers, deleteLock,
                   commitTrue, released, recycleCalls, buffer, shutdown>>

\* Mutant: m_activeSlice keeps pointing at the recycled slice.
RecycleSlice_KeepActive(s, sl) ==
    LET oldSlices == sliceBuffers
        content == vectors[oldSlices].content
        err == RecycleSliceError(sl, content, s)
        newSlices == [content |-> RemoveSliceBuffer(content, s), state |-> "live"]
    IN  IF err # "none"
        THEN UNCHANGED <<vectors, sliceBuffers, activeSlice, queue, underLock>>
        ELSE /\ vectors' = Append(vectors, newSlices)
             /\ sliceBuffers' = PublishRecycled(oldSlices, Len(vectors) + 1)
             /\ activeSlice' = activeSlice
             /\ queue' = ScheduleRecyling(queue,
                             DeferredSliceListDelete(s, oldSlices))
             /\ underLock' = underLock \cup
                    CallsUnderLock(FALSE, {"ScheduleRecyling"})

\* Shard::RecycleSlice(slice) as one call: the locked section, then the
\* scheduling. A RecoverableError leaves the function from the locked section.
RecycleSlice(s, sl) ==
    LET oldSlices == sliceBuffers
        content == vectors[oldSlices].content
        err == RecycleSliceError(sl, content, s)
        newSlices == [content |-> RemoveSliceBuffer(content, s), state |-> "live"]
    IN  IF err # "none"
        THEN UNCHANGED <<vectors, sliceBuffers, activeSlice, queue, underLock>>
        ELSE /\ vectors' = Append(vectors, newSlices)
             /\ sliceBuffers' = PublishRecycled(oldSlices, Len(vectors) + 1)
             /\ activeSlice' = IF activeSlice = s THEN Null ELSE activeSlice
             /\ queue' = ScheduleRecyling(queue,
                             DeferredSliceListDelete(s, oldSlices))
             /\ underLock' = underLock \cup
                    CallsUnderLock(FALSE, {"ScheduleRecyling"})

\* Slice::IncrementRefCount(slice), by a holder that copies its reference.
TestIncrementRefCount(s) ==
    /\ slices[s].state = "live"
    /\ slices[s].refCount >= 1
    /\ slices[s].refCount < MaxRefCount
    /\ slices' = [slices EXCEPT ![s] = IncrementRefCount(@)]
    /\ lastCall' = [op |-> "IncrementRefCount", slice |-> s,
                    before |-> slices[s], err |-> "none", ret |-> FALSE,
                    index |-> Null]
    /\ UNCHANGED <<activeSlice, vectors, sliceBuffers, inUse, documentMap,
                   tokens, queue, threads, readers, deleteLock, allocLog,
                   commitTrue, released, underLock, recycleCalls,
                   buffer, shutdown>>

\* Slice::DecrementRefCount(slice), by a holder that gives up its reference;
\* ret records whether the call went on to Shard::RecycleSlice.
TestDecrementRefCount(s) ==
    LET sl == DecrementRefCount(slices[s])
        recycle == ShouldRecycle(sl.refCount)
    IN  /\ slices[s].state = "live"
        /\ slices[s].refCount >= 1
        /\ slices' = [slices EXCEPT ![s] = sl]
        /\ IF recycle
           THEN /\ RecycleSlice(s, sl)
                /\ recycleCalls' = [recycleCalls EXCEPT ![s] = @ + 1]
           ELSE UNCHANGED <<vectors, sliceBuffers, activeSlice, queue,
                            underLock, recycleCalls>>
        /\ lastCall' = [op |-> "DecrementRefCount", slice |-> s,
                        before |-> slices[s],
                        err |-> IF recycle
                                THEN RecycleSliceError(sl,
                                         vectors[sliceBuffers].content, s)
                                ELSE "none",
                        ret |-> recycle, index |-> Null]
        /\ UNCHANGED <<inUse, documentMap, tokens, threads, readers,
                       deleteLock, allocLog, commitTrue, released,
                       buffer, shutdown>>

\* shard.RecycleSlice(slice) called again by the holder of the last reference,
\* whose first attempt from DecrementRefCount has failed.
TestRecycleSlice(s) ==
    /\ slices[s].state = "live"
    /\ slices[s].refCount = 0
    /\ \A i \in DOMAIN queue : queue[i].slice # s
    /\ RecycleSlice(s, slices[s])
    /\ lastCall' = [op |-> "RecycleSlice", slice |-> s, before |-> slices[s],
                    err |-> RecycleSliceError(slices[s],
                                vectors[sliceBuffers].content, s),
                    ret |-> FALSE, index |-> Null]
    /\ UNCHANGED <<slices, inUse, documentMap, tokens, threads, readers,
                   deleteLock, allocLog, commitTrue, released, recycleCalls,
                   buffer, shutdown>>

\* slice->CommitDocument() and slice->ExpireDocument() on a slice of the shard.
TestCommitDocument(s) == slices[s].state = "live" /\ CallCommitDocument(s)

TestExpireDocument(s) == slices[s].state = "live" /\ CallExpireDocument(s)

\* The recycler runs between the calls of the test.
TestRecycler == RecyclerStep /\ lastCall' = lastCall

RefNext ==
    \/ TestAllocateDocument
    \/ \E s \in SliceIds : TestCommitDocument(s)
    \/ \E s \in SliceIds : TestExpireDocument(s)
    \/ \E s \in SliceIds : TestIncrementRefCount(s)
    \/ \E s \in SliceIds : TestDecrementRefCount(s)
    \/ \E s \in SliceIds : TestRecycleSlice(s)
    \/ TestRecycler

RefSpec == Init /\ [][RefNext]_vars

\* ------------------------------------------------------------- scheduling
\* A thread that is rolling back or deleting keeps running until its call
\* returns: nothing in these steps waits for another thread.
ThreadProgress(t) ==
    \/ Expire(t)
    \/ RecycleSliceLocked(t)
    \/ RecycleSliceSchedule(t)
    \/ DeleteReturn(t)

\* A reader whose token some parked item is waiting for.
Tracked(h) == \E i \in DOMAIN queue : h \in queue[i].snapshot

\* A tracked reader drops its token; an untracked one may keep it forever.
TrackedReaderReturn(r) == Tracked(r) /\ ReaderReturnToken(r)

\* The recycler thread runs whenever it has something to do, running threads
\* finish their calls, and every token an item waits for is eventually dropped.
FairSpec ==
    /\ Spec
    /\ WF_vars(RecyclerStep)
    /\ \A t \in Threads : WF_vars(ThreadProgress(t))
    /\ \A r \in Readers : WF_vars(TrackedReaderReturn(r))

\* ------------------------------------------- unimplemented Ingestor calls
\* Each of these returns the exception that leaves the call.

\* Ingestor::AssertFact(id, fact, value)
IngestorAssertFact(id, fact, value) == "NotImplemented"

\* Ingestor::GetUsedCapacityInBytes()
GetUsedCapacityInBytes == "NotImplemented"

\* Ingestor::OpenGroup(groupId)
OpenGroup(groupId) == "NotImplemented"

\* Ingestor::CloseGroup()
CloseGroup == "NotImplemented"

\* Mutant: expiring a group is accepted silently.
ExpireGroup_Returns(groupId) == "none"

\* Ingestor::ExpireGroup(groupId)
ExpireGroup(groupId) == "NotImplemented"

\* Group ids the calls are made with.
GroupIds == DocIds

\* One of the calls is made, by any caller, and its outcome is recorded.
CallUnimplemented ==
    /\ \E call \in
          {[op |-> "AssertFact", err |-> IngestorAssertFact(id, fact, value)] :
              id \in DocIds, fact \in {0}, value \in BOOLEAN}
          \cup {[op |-> "GetUsedCapacityInBytes", err |-> GetUsedCapacityInBytes]}
          \cup {[op |-> "OpenGroup", err |-> OpenGroup(g)] : g \in GroupIds}
          \cup {[op |-> "CloseGroup", err |-> CloseGroup]}
          \cup {[op |-> "ExpireGroup", err |-> ExpireGroup(g)] : g \in GroupIds} :
          lastCall' = call
    /\ UNCHANGED <<slices, allocLog, commitTrue, shardVars>>

\* The ingestor of Spec, with the unimplemented calls made at any moment.
UnimplementedNext == Next \/ CallUnimplemented

UnimplementedSpec == Init /\ [][UnimplementedNext]_vars

\* --------------------------------------------------------------- Shutdown
\* Mutant: Shutdown does not wait for its tracker.
IsComplete_Always(tracker) == TRUE

\* ITokenTracker::IsComplete: every token of the snapshot has been dropped.
IsComplete(tracker) == tracker = {}

\* TokenManager::RequestToken after Shutdown was called.
IsShuttingDown == shutdown.state # "no"

\* The holder is refused a token; its call ends without one.
Refused(h) ==
    /\ IsShuttingDown
    /\ lastCall' = [op |-> "RequestToken", holder |-> h, err |-> "refused"]
    /\ UNCHANGED <<slices, activeSlice, vectors, sliceBuffers, inUse,
                   documentMap, tokens, queue, threads, readers, deleteLock,
                   allocLog, commitTrue, released, underLock, recycleCalls,
                   buffer, shutdown>>

\* Ingestor::Delete, first statement: the token is requested before the
\* delete lock, so a caller may hold a token while it waits for the lock.
DeleteRequestToken(t, id) ==
    /\ ~IsShuttingDown
    /\ threads[t].pc = "idle"
    /\ RequestToken(t)
    /\ Continue(t, [IdleThread EXCEPT !.pc = "del_lock", !.op = "Delete",
                                      !.id = id])
    /\ UNCHANGED <<slices, activeSlice, vectors, sliceBuffers, inUse,
                   documentMap, queue, readers, deleteLock, allocLog,
                   commitTrue, released, lastCall, underLock, recycleCalls,
                   buffer, shutdown>>

\* Ingestor::Delete under the lock: Find, and DocumentMap::Delete if found.
DeleteLocked(t) ==
    LET id == threads[t].id
        isFound == Find(documentMap, id)
    IN  /\ threads[t].pc = "del_lock"
        /\ deleteLock = Null
        /\ deleteLock' = t
        /\ documentMap' = DeleteMapping(documentMap, id)
        /\ Continue(t, IF isFound
                       THEN [IdleThread EXCEPT !.pc = "exp_expire", !.op = "Delete",
                               !.id = id, !.isFound = TRUE,
                               !.slice = documentMap[id].slice,
                               !.index = documentMap[id].index,
                               !.expireCalled = TRUE]
                       ELSE [IdleThread EXCEPT !.pc = "del_return",
                               !.op = "Delete", !.id = id,
                               !.isFound = FALSE,
                               !.failure = MissingEntryFailure])
        /\ UNCHANGED <<slices, activeSlice, vectors, sliceBuffers, inUse, tokens,
                       queue, readers, allocLog, commitTrue, released, lastCall,
                       underLock, recycleCalls, buffer, shutdown>>

\* Ingestor::Delete after Shutdown: RequestToken is refused.
RefusedDelete(t) == threads[t].pc = "idle" /\ Refused(t)

GrantedReaderRequestToken(r) == ~IsShuttingDown /\ ReaderRequestToken(r)

RefusedReaderRequestToken(r) == r \notin tokens /\ Refused(r)

\* Ingestor::Shutdown is called: TokenManager::Shutdown stops handing out
\* tokens and starts a tracker for the outstanding ones.
CallShutdown ==
    /\ shutdown.state = "no"
    /\ shutdown' = [state |-> "waiting", tracker |-> StartTracker(tokens),
                    outstanding |-> tokens]
    /\ UNCHANGED <<slices, activeSlice, vectors, sliceBuffers, inUse,
                   documentMap, tokens, queue, threads, readers, deleteLock,
                   allocLog, commitTrue, released, lastCall, underLock,
                   recycleCalls, buffer>>

\* Ingestor::Shutdown returns when the tracker is complete.
ShutdownReturn ==
    /\ shutdown.state = "waiting"
    /\ IsComplete(shutdown.tracker)
    /\ shutdown' = [shutdown EXCEPT !.state = "returned"]
    /\ UNCHANGED <<slices, activeSlice, vectors, sliceBuffers, inUse,
                   documentMap, tokens, queue, threads, readers, deleteLock,
                   allocLog, commitTrue, released, lastCall, underLock,
                   recycleCalls, buffer>>

\* Deletes and readers on an ingestor that is shut down at some point.
ShutdownNext ==
    \/ \E t \in Threads, id \in DocIds : DeleteRequestToken(t, id)
    \/ \E t \in Threads : DeleteLocked(t)
    \/ \E t \in Threads : RefusedDelete(t)
    \/ \E t \in Threads : DeleteReturn(t)
    \/ \E r \in Readers : GrantedReaderRequestToken(r)
    \/ \E r \in Readers : RefusedReaderRequestToken(r)
    \/ \E r \in Readers : ReaderLoad(r)
    \/ \E r \in Readers : ReaderReturnToken(r)
    \/ CallShutdown
    \/ ShutdownReturn

ShutdownSpec == Init /\ [][ShutdownNext]_vars

\* A holder that Shutdown is waiting for drops its token.
AwaitedReaderReturn(r) == r \in shutdown.tracker /\ ReaderReturnToken(r)

\* A delete that has its token takes the lock when it is free and returns;
\* the holders Shutdown waits for drop their tokens; Shutdown returns once
\* it can.
FairShutdownSpec ==
    /\ ShutdownSpec
    /\ \A t \in Threads : WF_vars(DeleteLocked(t) \/ DeleteReturn(t))
    /\ \A r \in Readers : WF_vars(AwaitedReaderReturn(r))
    /\ WF_vars(ShutdownReturn)

\* ------------------------------------------------------ concurrent Deletes
\* Ingestor::Delete statement by statement, so that callers overlap: they
\* hold tokens while they wait for m_deleteDocumentLock.

\* Mutant: the lock is handed out while another thread owns it.
TryLock_Always(owner) == TRUE

\* std::lock_guard<std::mutex> lock(m_deleteDocumentLock) can be taken.
TryLock(owner) == owner = Null

\* Ingestor::Delete: the lock guard is constructed.
DeleteTakeLock(t) ==
    /\ threads[t].pc = "del_lock"
    /\ TryLock(deleteLock)
    /\ deleteLock' = t
    /\ Continue(t, [threads[t] EXCEPT !.pc = "del_find"])
    /\ UNCHANGED <<slices, activeSlice, vectors, sliceBuffers, inUse,
                   documentMap, tokens, queue, readers, allocLog, commitTrue,
                   released, lastCall, underLock, recycleCalls, buffer,
                   shutdown>>

\* Ingestor::Delete: location = m_documentMap->Find(id, isFound)
DeleteFindEntry(t) ==
    LET id == threads[t].id
        isFound == Find(documentMap, id)
    IN  /\ threads[t].pc = "del_find"
        /\ Continue(t, IF isFound
                       THEN [threads[t] EXCEPT !.pc = "del_erase",
                               !.isFound = TRUE,
                               !.slice = documentMap[id].slice,
                               !.index = documentMap[id].index]
                       ELSE [threads[t] EXCEPT !.pc = "del_return",
                               !.isFound = FALSE,
                               !.failure = MissingEntryFailure])
        /\ UNCHANGED <<slices, activeSlice, vectors, sliceBuffers, inUse,
                       documentMap, tokens, queue, readers, deleteLock,
                       allocLog, commitTrue, released, lastCall, underLock,
                       recycleCalls, buffer, shutdown>>

\* Ingestor::Delete: m_documentMap->Delete(id), then location.Expire() is
\* entered.
DeleteEraseEntry(t) ==
    /\ threads[t].pc = "del_erase"
    /\ documentMap' = DeleteMapping(documentMap, threads[t].id)
    /\ Continue(t, [threads[t] EXCEPT !.pc = "exp_expire",
                                      !.expireCalled = TRUE])
    /\ UNCHANGED <<slices, activeSlice, vectors, sliceBuffers, inUse, tokens,
                   queue, readers, deleteLock, allocLog, commitTrue, released,
                   lastCall, underLock, recycleCalls, buffer, shutdown>>

DeleteRaceNext ==
    \/ \E t \in Threads, id \in DocIds : AddAllocate(t, id)
    \/ \E t \in Threads : AddIngestCommit(t)
    \/ \E t \in Threads : AddIngestThrows(t)
    \/ \E t \in Threads : AddMap(t)
    \/ \E t \in Threads, id \in DocIds : DeleteRequestToken(t, id)
    \/ \E t \in Threads : DeleteTakeLock(t)
    \/ \E t \in Threads : DeleteFindEntry(t)
    \/ \E t \in Threads : DeleteEraseEntry(t)
    \/ \E t \in Threads : DeleteReturn(t)
    \/ \E t \in Threads : Expire(t)
    \/ \E t \in Threads : RecycleSliceLocked(t)
    \/ \E t \in Threads : RecycleSliceSchedule(t)
    \/ \E r \in Readers : ReaderRequestToken(r)
    \/ \E r \in Readers : ReaderLoad(r)
    \/ \E r \in Readers : ReaderReturnToken(r)
    \/ RecyclerStep

DeleteRaceSpec == Init /\ [][DeleteRaceNext]_vars

\* ----------------------------------------------------------------- layout
\* sizeof(void*)
PointerSize == 8

Ranks == 0..MaxRankValue

\* A term table as far as the layout sees it: GetTotalRowCount(rank).
TermTables == [rowCount : [Ranks -> 0..MaxRowCount]]

\* A frozen schema as far as the layout sees it: bytes per document record.
Schemas == [recordSize : 0..MaxRecordSize]

\* ITermTable::GetMaxRankUsed: the highest rank that has a row.
GetMaxRankUsed(termTable) ==
    LET used == {r \in Ranks : termTable.rowCount[r] > 0}
    IN  IF used = {} THEN 0 ELSE CHOOSE r \in used : \A q \in used : q <= r

\* Row::DocumentsInRank0Row(rowCount, maxRank): a rank-0 row packs 64
\* documents per 8-byte word, a rank-r bit covers 2^r documents.
DocumentsInRank0Row(n, maxRank) == n * 64 * (2 ^ maxRank)

\* DocTableDescriptor::GetBufferSize
DocTableGetBufferSize(capacity, schema) == capacity * schema.recordSize

\* RowTableDescriptor::GetBufferSize: rowCount rows of capacity / (8 * 2^r)
\* bytes each.
RowTableGetBufferSize(capacity, rowCount, r) ==
    rowCount * (capacity \div (8 * (2 ^ r)))

\* Shard::InitializeDescriptors: the loop over the ranks, from rank r with
\* the offset reached so far; offsets collects where each RowTable starts.
RECURSIVE RowTableOffsets(_, _, _, _, _)
RowTableOffsets(r, currentOffset, sliceCapacity, termTable, offsets) ==
    IF r > MaxRankValue
    THEN [end |-> currentOffset, rowTables |-> offsets]
    ELSE RowTableOffsets(r + 1,
             currentOffset + RowTableGetBufferSize(sliceCapacity,
                                                   termTable.rowCount[r], r),
             sliceCapacity, termTable, Append(offsets, currentOffset))

\* Mutant: the word of the Slice pointer is not counted in the size.
InitializeDescriptors_NoPointerWord(sliceCapacity, docDataSchema, termTable) ==
    LET rows == RowTableOffsets(0,
                    DocTableGetBufferSize(sliceCapacity, docDataSchema),
                    sliceCapacity, termTable, <<>>)
    IN  [docTable |-> 0, rowTables |-> rows.rowTables,
         sliceBufferSize |-> rows.end]

\* Shard::InitializeDescriptors(shard, sliceCapacity, docDataSchema,
\* termTable): the descriptors it builds and the size it returns.
InitializeDescriptors(sliceCapacity, docDataSchema, termTable) ==
    LET docTable == 0
        rows == RowTableOffsets(0,
                    docTable + DocTableGetBufferSize(sliceCapacity, docDataSchema),
                    sliceCapacity, termTable, <<>>)
    IN  [docTable |-> docTable, rowTables |-> rows.rowTables,
         sliceBufferSize |-> rows.end + PointerSize]

\* Iterations of the capacity search that are followed. A layout that grows
\* at all grows by 8 bytes or more per quantum, so a search that is still
\* running after this many iterations never ends.
LoopLimit == (MaxBufferSize \div 8) + 2

\* Mutant: the search stops when the next layout fills the buffer exactly.
GetCapacityLoop_StopAtEqual(newBufferSize, bufferSizeInBytes) ==
    newBufferSize >= bufferSizeInBytes

\* Shard::GetCapacityForByteSize: if (newBufferSize > bufferSizeInBytes) break
GetCapacityLoop(newBufferSize, bufferSizeInBytes) ==
    newBufferSize > bufferSizeInBytes

\* Shard::GetCapacityForByteSize: the for (;;) loop, entered with capacity
\* after n iterations.
RECURSIVE CapacitySearch(_, _, _, _, _)
CapacitySearch(capacity, n, bufferSizeInBytes, schema, termTable) ==
    LET newSuggestedCapacity ==
            capacity + DocumentsInRank0Row(1, GetMaxRankUsed(termTable))
        newBufferSize ==
            InitializeDescriptors(newSuggestedCapacity, schema,
                                  termTable).sliceBufferSize
    IN  IF GetCapacityLoop(newBufferSize, bufferSizeInBytes)
        THEN [outcome |-> "break", capacity |-> capacity]
        ELSE IF n >= LoopLimit
             THEN [outcome |-> "loops", capacity |-> capacity]
             ELSE CapacitySearch(newSuggestedCapacity, n + 1,
                                 bufferSizeInBytes, schema, termTable)

\* Mutant: the capacity is returned without the assertion.
GetCapacityForByteSize_NoAssert(bufferSizeInBytes, schema, termTable) ==
    LET r == CapacitySearch(0, 0, bufferSizeInBytes, schema, termTable)
    IN  IF r.outcome = "loops" THEN r
        ELSE [outcome |-> "returns", capacity |-> r.capacity]

\* Shard::GetCapacityForByteSize
GetCapacityForByteSize(bufferSizeInBytes, schema, termTable) ==
    LET r == CapacitySearch(0, 0, bufferSizeInBytes, schema, termTable)
    IN  IF r.outcome = "loops" THEN r
        ELSE IF LogAssertB(r.capacity > 0) # "none"
             THEN [outcome |-> "FatalAssert", capacity |-> r.capacity]
             ELSE [outcome |-> "returns", capacity |-> r.capacity]

\* The static function is called with any buffer size, schema and term table.
CapacityInit ==
    /\ NewShard
    /\ \E size \in 0..MaxBufferSize, schema \in Schemas, termTable \in TermTables :
          lastCall = [op |-> "none", bufferSizeInBytes |-> size,
                      schema |-> schema, termTable |-> termTable,
                      outcome |-> "none", capacity |-> 0]

CallGetCapacityForByteSize ==
    LET r == GetCapacityForByteSize(lastCall.bufferSizeInBytes, lastCall.schema,
                                    lastCall.termTable)
    IN  /\ lastCall.op = "none"
        /\ lastCall' = [lastCall EXCEPT !.op = "GetCapacityForByteSize",
                                        !.outcome = r.outcome,
                                        !.capacity = r.capacity]
        /\ UNCHANGED <<slices, allocLog, commitTrue, shardVars>>

CapacityNext == CallGetCapacityForByteSize

CapacitySpec == CapacityInit /\ [][CapacityNext]_vars

\* ----------------------------------------------------------- slice buffer
\* One shard is built for a schema, a term table and a buffer size, and one
\* Slice is constructed on it; its buffer is a map from byte offsets to the
\* bits that are 1 in the byte.

\* A RowId is a (rank, index) pair.
RowIds(termTable) ==
    {id \in [rank : Ranks, index : 0..(MaxRowCount - 1)] :
        id.index < termTable.rowCount[id.rank]}

\* RowIdSequence(term, termTable): a term is identified with the set of rows
\* the term table gives it.
Terms(termTable) == SUBSET RowIds(termTable)

\* ITermTable::GetDocumentActiveTerm expands to the first rank-0 row.
DocumentActiveRows(termTable) ==
    {id \in RowIds(termTable) : id.rank = 0 /\ id.index = 0}

\* RowIdForActiveDocument: which error, if any, it throws.
RowIdForActiveDocument(termTable) ==
    LET rows == DocumentActiveRows(termTable)
    IN  IF rows = {} THEN "RecoverableError"
        ELSE IF \E id \in rows : id.rank # 0 THEN "RecoverableError"
        ELSE IF Cardinality(rows) > 1 THEN "RecoverableError"
        ELSE "none"

\* The address of the Slice object, as the bytes of a pointer.
AddressOf(s) ==
    [i \in 0..(PointerSize - 1) |-> IF i < 6 THEN {(s + i) % 8, 7} ELSE {}]

\* Mutant: the pointer is kept one word earlier, inside the last table of a
\* buffer that has no padding.
GetSlicePtrOffset_OneWordEarlier(sliceBufferSize) ==
    sliceBufferSize - (2 * PointerSize)

\* Shard::GetSlicePtrOffset
GetSlicePtrOffset(sliceBufferSize) == sliceBufferSize - PointerSize

\* Slice::GetSlicePointer: the pointer-sized word at the offset.
GetSlicePointer(mem, slicePtrOffset) ==
    [i \in 0..(PointerSize - 1) |-> mem[slicePtrOffset + i]]

\* Slice::GetSliceFromBuffer
GetSliceFromBuffer(mem, slicePtrOffset) == GetSlicePointer(mem, slicePtrOffset)

\* Slice::Initialize: slicePtr = this
Initialize(mem, slicePtrOffset, s) ==
    [o \in DOMAIN mem |->
        IF slicePtrOffset <= o /\ o < slicePtrOffset + PointerSize
        THEN AddressOf(s)[o - slicePtrOffset]
        ELSE mem[o]]

\* DocTableDescriptor::Initialize / RowTableDescriptor::Initialize: the
\* region is zeroed.
ZeroRegion(mem, from, size) ==
    [o \in DOMAIN mem |-> IF from <= o /\ o < from + size THEN {} ELSE mem[o]]

\* Bytes of one row of the rank-r RowTable.
BytesInRow(capacity, r) == capacity \div (8 * (2 ^ r))

\* Where the bit of (row, docIndex) is: byte offset in the buffer and bit.
BitPosition(b, row, docIndex) ==
    LET column == docIndex \div (2 ^ row.rank)
    IN  [byte |-> b.rowTables[row.rank + 1]
                    + row.index * BytesInRow(b.capacity, row.rank)
                    + (column \div 8),
         bit |-> column % 8]

\* RowTableDescriptor::SetBit
SetBit(b, mem, row, docIndex) ==
    LET p == BitPosition(b, row, docIndex)
    IN  [mem EXCEPT ![p.byte] = @ \cup {p.bit}]

\* RowTableDescriptor::ClearBit
ClearBit(b, mem, row, docIndex) ==
    LET p == BitPosition(b, row, docIndex)
    IN  [mem EXCEPT ![p.byte] = @ \ {p.bit}]

\* RowTableDescriptor::Initialize sets every bit of the document-active rows.
FillRow(b, mem, row) ==
    LET from == b.rowTables[row.rank + 1]
                   + row.index * BytesInRow(b.capacity, row.rank)
    IN  [o \in DOMAIN mem |->
            IF from <= o /\ o < from + BytesInRow(b.capacity, row.rank)
            THEN 0..7 ELSE mem[o]]

\* The loop of Slice::Slice over the ranks: GetRowTable(r).Initialize
RECURSIVE InitializeRowTables(_, _, _)
InitializeRowTables(b, mem, r) ==
    IF r > MaxRankValue THEN mem
    ELSE LET zeroed == ZeroRegion(mem, b.rowTables[r + 1],
                           RowTableGetBufferSize(b.capacity,
                                                 b.termTable.rowCount[r], r))
             active == {id \in DocumentActiveRows(b.termTable) : id.rank = r}
             filled == IF active = {} THEN zeroed
                       ELSE FillRow(b, zeroed, CHOOSE id \in active : TRUE)
         IN  InitializeRowTables(b, filled, r + 1)

\* Shard::Shard: the capacity and the descriptors for the buffer size, or the
\* reason why the constructor fails.
Shard(sliceBufferSize, schema, termTable) ==
    LET c == GetCapacityForByteSize(sliceBufferSize, schema, termTable)
        d == InitializeDescriptors(c.capacity, schema, termTable)
    IN  [err |-> IF RowIdForActiveDocument(termTable) # "none"
                 THEN RowIdForActiveDocument(termTable)
                 ELSE IF c.outcome # "returns" THEN c.outcome
                 ELSE LogAssertB(d.sliceBufferSize <= sliceBufferSize),
         sliceBufferSize |-> sliceBufferSize, schema |-> schema,
         termTable |-> termTable, capacity |-> c.capacity,
         docTable |-> d.docTable, rowTables |-> d.rowTables]

\* Slice::Slice: the buffer after the constructor of slice s on shard b.
SliceBuffer(b, s) ==
    LET raw == [o \in 0..(b.sliceBufferSize - 1) |-> {}]
        pointed == Initialize(raw, GetSlicePtrOffset(b.sliceBufferSize), s)
        docs == ZeroRegion(pointed, b.docTable,
                           DocTableGetBufferSize(b.capacity, b.schema))
    IN  InitializeRowTables(b, docs, 0)

\* Shard::AddPosting: SetBit for every row of the term.
\* Mutant: only one row of the term's RowIdSequence gets its bit.
AddPosting_FirstRow(b, mem, rows, index) ==
    IF rows = {} THEN mem
    ELSE SetBit(b, mem, CHOOSE id \in rows : TRUE, index)

RECURSIVE AddPosting(_, _, _, _)
AddPosting(b, mem, rows, index) ==
    IF rows = {} THEN mem
    ELSE LET row == CHOOSE id \in rows : TRUE
         IN  AddPosting(b, SetBit(b, mem, row, index), rows \ {row}, index)

\* Mutant: the fact is asserted on the first row of a term with several rows.
AssertFact_FirstRow(b, mem, rows, value, index) ==
    IF rows = {} THEN [err |-> "RecoverableError", mem |-> mem]
    ELSE LET row == CHOOSE id \in rows : TRUE
         IN  [err |-> "none",
              mem |-> IF value THEN SetBit(b, mem, row, index)
                      ELSE ClearBit(b, mem, row, index)]

\* Shard::AssertFact
AssertFact(b, mem, rows, value, index) ==
    IF rows = {} THEN [err |-> "RecoverableError", mem |-> mem]
    ELSE LET row == CHOOSE id \in rows : TRUE
         IN  IF rows \ {row} # {}
             THEN [err |-> "RecoverableError", mem |-> mem]
             ELSE [err |-> "none",
                   mem |-> IF value THEN SetBit(b, mem, row, index)
                           ELSE ClearBit(b, mem, row, index)]

\* Buffer sizes a shard is built with here: some layouts fill the size
\* exactly, the others leave padding before the pointer.
BufferSizes == {MaxBufferSize \div 2}

\* DocIndexes the calls are made with: the first and the last of the slice.
DocIndexes(b) == {0, b.capacity - 1}

\* The slice that is constructed on the shard.
TheSlice == 1

\* A shard is constructed for some schema, term table and buffer size, and a
\* Slice is constructed on it.
BufferInit ==
    /\ slices = [s \in SliceIds |-> NewSlice]
    /\ activeSlice = Null
    /\ vectors = << [content |-> <<>>, state |-> "live"] >>
    /\ sliceBuffers = 1
    /\ inUse = MaxSlices
    /\ documentMap = [d \in DocIds |-> NoHandle]
    /\ tokens = {}
    /\ queue = <<>>
    /\ threads = [t \in Threads |-> Null]
    /\ readers = [r \in Readers |-> Null]
    /\ deleteLock = Null
    /\ allocLog = [s \in SliceIds |-> <<>>]
    /\ commitTrue = [s \in SliceIds |-> 0]
    /\ released = [s \in SliceIds |-> 0]
    /\ underLock = {}
    /\ recycleCalls = [s \in SliceIds |-> 0]
    /\ shutdown = NoShutdown
    /\ lastCall = [op |-> "none", err |-> "none"]
    /\ \E size \in BufferSizes, schema \in Schemas, termTable \in TermTables :
          LET b == Shard(size, schema, termTable)
          IN  /\ b.err = "none"
              /\ buffer = [shard |-> b, mem |-> SliceBuffer(b, TheSlice)]

BufferUnchanged ==
    UNCHANGED <<activeSlice, vectors, sliceBuffers, inUse, documentMap, tokens,
                queue, threads, readers, deleteLock, allocLog, commitTrue,
                released, underLock, recycleCalls, shutdown>>

CallAddPosting(rows, index) ==
    /\ buffer' = [buffer EXCEPT
                    !.mem = AddPosting(buffer.shard, buffer.mem, rows, index)]
    /\ lastCall' = [op |-> "AddPosting", err |-> "none"]
    /\ UNCHANGED slices
    /\ BufferUnchanged

CallAssertFact(rows, value, index) ==
    LET r == AssertFact(buffer.shard, buffer.mem, rows, value, index)
    IN  /\ buffer' = [buffer EXCEPT !.mem = r.mem]
        /\ lastCall' = [op |-> "AssertFact", err |-> r.err]
        /\ UNCHANGED slices
        /\ BufferUnchanged

\* Slice::TryAllocateDocument, CommitDocument and ExpireDocument change the
\* counters of the Slice object and leave its buffer alone.
BufferTryAllocateDocument ==
    /\ slices' = [slices EXCEPT
                    ![TheSlice] = TryAllocateDocument(slices[TheSlice]).slice]
    /\ lastCall' = [op |-> "TryAllocateDocument", err |-> "none"]
    /\ UNCHANGED buffer
    /\ BufferUnchanged

BufferCommitDocument ==
    LET r == CommitDocument(slices[TheSlice])
    IN  /\ slices' = [slices EXCEPT ![TheSlice] = r.slice]
        /\ lastCall' = [op |-> "CommitDocument", err |-> r.err]
        /\ UNCHANGED buffer
        /\ BufferUnchanged

BufferExpireDocument ==
    LET r == ExpireDocument(slices[TheSlice])
    IN  /\ slices' = [slices EXCEPT ![TheSlice] = r.slice]
        /\ lastCall' = [op |-> "ExpireDocument", err |-> r.err]
        /\ UNCHANGED buffer
        /\ BufferUnchanged

BufferNext ==
    \/ \E rows \in Terms(buffer.shard.termTable),
          index \in DocIndexes(buffer.shard) : CallAddPosting(rows, index)
    \/ \E rows \in Terms(buffer.shard.termTable), value \in BOOLEAN,
          index \in DocIndexes(buffer.shard) : CallAssertFact(rows, value, index)
    \/ BufferTryAllocateDocument
    \/ BufferCommitDocument
    \/ BufferExpireDocument

BufferSpec == BufferInit /\ [][BufferNext]_vars

\* Shard::AssertFact is called directly, with any fact, value and DocIndex,
\* on the buffer of the slice.
FactInit == BufferInit

TestAssertFact(rows, value, index) ==
    LET r == AssertFact(buffer.shard, buffer.mem, rows, value, index)
    IN  /\ buffer' = [buffer EXCEPT !.mem = r.mem]
        /\ lastCall' = [op |-> "AssertFact", err |-> r.err, rows |-> rows,
                        value |-> value, index |-> index]
        /\ UNCHANGED slices
        /\ BufferUnchanged

FactNext ==
    \E rows \in Terms(buffer.shard.termTable), value \in BOOLEAN,
       index \in DocIndexes(buffer.shard) : TestAssertFact(rows, value, index)

FactSpec == FactInit /\ [][FactNext]_vars

\* Shard::AddPosting is called directly, with any term and DocIndex, on the
\* buffer of the slice.
PostingInit == BufferInit

TestAddPosting(rows, index) ==
    /\ buffer' = [buffer EXCEPT
                    !.mem = AddPosting(buffer.shard, buffer.mem, rows, index)]
    /\ lastCall' = [op |-> "AddPosting", err |-> "none", rows |-> rows,
                    index |-> index]
    /\ UNCHANGED slices
    /\ BufferUnchanged

PostingNext ==
    \E rows \in Terms(buffer.shard.termTable),
       index \in DocIndexes(buffer.shard) : TestAddPosting(rows, index)

PostingSpec == PostingInit /\ [][PostingNext]_vars

\* ------------------------------------------------------------ QueryParser
\* The input stream is a sequence of characters; a character is a string of
\* length one. NUL is what PeekChar gives at the end of the input.
NUL == "NUL"

Letters == <<"a", "b", "c", "d", "e", "f", "g", "h", "i", "j", "k", "l", "m",
             "n", "o", "p", "q", "r", "s", "t", "u", "v", "w", "x", "y", "z">>

\* static_cast<size_t>(c) for the characters that are used.
CharCode(c) ==
    IF \E i \in DOMAIN Letters : Letters[i] = c
    THEN 96 + (CHOOSE i \in DOMAIN Letters : Letters[i] = c)
    ELSE CASE c = NUL -> 0
           [] c = " " -> 32
           [] c = "\"" -> 34
           [] c = "&" -> 38
           [] c = "(" -> 40
           [] c = ")" -> 41
           [] c = "-" -> 45
           [] c = ":" -> 58
           [] c = "\\" -> 92
           [] c = "|" -> 124

\* isspace(c)
isspace(c) == c \in {" ", "\t", "\n", "\r", "\f"}

\* strchr(s, c) != nullptr, s given by its characters: the terminating NUL
\* of s is part of the string that is searched.
strchr(s, c) == c = NUL \/ c \in s

\* Mutant: the And-production also ends before a ':'.
c_endOfAndProduction_AndColon == {")", "|", ":"}

\* ")|"
c_endOfAndProduction == {")", "|"}

\* "&|():-\""
c_endOfToken == {"&", "|", "(", ")", ":", "-", "\""}

\* A parser step that returned: the new m_currentPosition and the value.
Returned(pos, value) ==
    [err |-> "none", message |-> "", position |-> 0, pos |-> pos,
     value |-> value]

\* QueryParser::ParseError(message, position), thrown at m_currentPosition pos.
ParseError(message, position, pos) ==
    [err |-> "ParseError", message |-> message, position |-> position,
     pos |-> pos, value |-> Null]

\* TermMatchNode::Builder::CreateUnigramNode
CreateUnigramNode(text, streamId) ==
    [type |-> "Unigram", text |-> text, streamId |-> streamId]

\* TermMatchNode::Builder::CreatePhraseNode
CreatePhraseNode(grams, streamId) ==
    [type |-> "Phrase", grams |-> grams, streamId |-> streamId]

\* TermMatchNode::Builder(type).AddChild(...).Complete(): a node of one
\* child is the child itself.
Complete(type, children) ==
    IF type # "Not" /\ Len(children) = 1 THEN children[1]
    ELSE [type |-> type, children |-> children]

\* QueryParser::PeekChar
PeekChar(input, pos) == IF pos < Len(input) THEN input[pos + 1] ELSE NUL

\* QueryParser::GetChar
GetChar(input, pos) ==
    LET result == PeekChar(input, pos)
    IN  IF result = NUL
        THEN ParseError("Attempting to read past NULL byte", pos, pos)
        ELSE Returned(pos + 1, result)

\* A call that may throw: the caller goes on with what the call returned,
\* and an exception of the call leaves the caller at once.
Then(r, K(_)) == IF r.err # "none" THEN r ELSE K(r)

\* QueryParser::SkipWhite
RECURSIVE SkipWhite(_, _)
SkipWhite(input, pos) ==
    IF isspace(PeekChar(input, pos))
    THEN Then(GetChar(input, pos), LAMBDA g : SkipWhite(input, g.pos))
    ELSE Returned(pos, Null)

\* "&|\\()\":-"
legalEscapes == {"&", "|", "\\", "(", ")", "\"", ":", "-"}

\* Mutant: the backslash itself is returned and the escaped character is
\* left in the input.
GetWithEscape_ReturnBackslash(input, pos) == GetChar(input, pos)

\* QueryParser::GetWithEscape
GetWithEscape(input, pos) ==
    IF PeekChar(input, pos) = "\\"
    THEN Then(GetChar(input, pos), LAMBDA g :
            IF strchr(legalEscapes, PeekChar(input, g.pos))
            THEN GetChar(input, g.pos)
            ELSE ParseError("Bad escape char",
                            CharCode(PeekChar(input, g.pos)), g.pos))
    ELSE GetChar(input, pos)

\* QueryParser::ParseToken: the while loop, with the characters pushed so far.
RECURSIVE ParseTokenLoop(_, _, _)
ParseTokenLoop(input, pos, builder) ==
    IF ~isspace(PeekChar(input, pos))
          /\ ~strchr(c_endOfToken, PeekChar(input, pos))
    THEN Then(GetWithEscape(input, pos), LAMBDA temp :
            ParseTokenLoop(input, temp.pos, Append(builder, temp.value)))
    ELSE IF builder = <<>>
         THEN ParseError("Expected token.", pos, pos)
         ELSE Returned(pos, builder)

\* Mutant: a token of no characters is returned instead of the error.
ParseToken_AllowEmpty(input, pos) ==
    IF ~isspace(PeekChar(input, pos))
          /\ ~strchr(c_endOfToken, PeekChar(input, pos))
    THEN ParseTokenLoop(input, pos, <<>>)
    ELSE Returned(pos, <<>>)

\* QueryParser::ParseToken
ParseToken(input, pos) == ParseTokenLoop(input, pos, <<>>)

\* QueryParser::ExpectDelimeter
ExpectDelimeter(input, pos, c) ==
    IF PeekChar(input, pos) # c
    THEN ParseError("Expected delimiter", pos, pos)
    ELSE GetChar(input, pos)

\* QueryParser::ParsePhrase: the for loop, with the grams added so far.
RECURSIVE ParsePhraseLoop(_, _, _, _)
ParsePhraseLoop(input, pos, grams, streamId) ==
    Then(SkipWhite(input, pos), LAMBDA w :
      IF PeekChar(input, w.pos) = "\""
      THEN Then(ExpectDelimeter(input, w.pos, "\""), LAMBDA d :
             Returned(d.pos, CreatePhraseNode(grams, streamId)))
      ELSE Then(ParseToken(input, w.pos), LAMBDA token :
             ParsePhraseLoop(input, token.pos, Append(grams, token.value),
                             streamId)))

\* QueryParser::ParsePhrase
ParsePhrase(input, pos, streamId) ==
    Then(ExpectDelimeter(input, pos, "\""), LAMBDA d :
      ParsePhraseLoop(input, d.pos, <<>>, streamId))

\* QueryParser::StreamIdFromText
StreamIdFromText(streamName) == 123

\* Mutant: the name before ':' is taken as the token and the rest is left.
ParseTerm_IgnorePrefix(input, pos) ==
    Then(SkipWhite(input, pos), LAMBDA w :
      IF PeekChar(input, w.pos) = "\""
      THEN ParsePhrase(input, w.pos, 0)
      ELSE Then(ParseToken(input, w.pos), LAMBDA left :
             Returned(left.pos, CreateUnigramNode(left.value, 0))))

\* QueryParser::ParseTerm
ParseTerm(input, pos) ==
    Then(SkipWhite(input, pos), LAMBDA w :
      IF PeekChar(input, w.pos) = "\""
      THEN ParsePhrase(input, w.pos, 0)
      ELSE Then(ParseToken(input, w.pos), LAMBDA left :
             IF PeekChar(input, left.pos) = ":"
             THEN Then(GetChar(input, left.pos), LAMBDA g :
                    IF PeekChar(input, g.pos) = "\""
                    THEN ParsePhrase(input, g.pos,
                                     StreamIdFromText(left.value))
                    ELSE Then(ParseToken(input, g.pos), LAMBDA right :
                           Returned(right.pos,
                                    CreateUnigramNode(right.value,
                                       StreamIdFromText(left.value)))))
             ELSE Returned(left.pos, CreateUnigramNode(left.value, 0))))

RECURSIVE ParseOr(_, _)
RECURSIVE ParseOrLoop(_, _, _)
RECURSIVE ParseAnd(_, _)
RECURSIVE ParseAndLoop(_, _, _)
RECURSIVE ParseSimple(_, _)

\* QueryParser::ParseSimple
ParseSimple(input, pos) ==
    Then(SkipWhite(input, pos), LAMBDA w :
      IF PeekChar(input, w.pos) = "-"
      THEN Then(GetChar(input, w.pos), LAMBDA g :
           Then(SkipWhite(input, g.pos), LAMBDA w2 :
           Then(ParseSimple(input, w2.pos), LAMBDA simpleNode :
             Returned(simpleNode.pos,
                      Complete("Not", <<simpleNode.value>>)))))
      ELSE IF PeekChar(input, w.pos) = "("
      THEN Then(GetChar(input, w.pos), LAMBDA g :
           Then(ParseOr(input, g.pos), LAMBDA orNode :
           Then(SkipWhite(input, orNode.pos), LAMBDA w2 :
           Then(ExpectDelimeter(input, w2.pos, ")"), LAMBDA d :
             Returned(d.pos, orNode.value)))))
      ELSE ParseTerm(input, w.pos))

\* QueryParser::ParseAnd: the for loop, with the children added so far.
ParseAndLoop(input, pos, children) ==
    Then(SkipWhite(input, pos), LAMBDA w :
      IF PeekChar(input, w.pos) = "&"
      THEN Then(GetChar(input, w.pos), LAMBDA g :
           Then(ParseSimple(input, g.pos), LAMBDA child :
             ParseAndLoop(input, child.pos, Append(children, child.value))))
      ELSE IF ~strchr(c_endOfAndProduction, PeekChar(input, w.pos))
      THEN Then(ParseSimple(input, w.pos), LAMBDA child :
             ParseAndLoop(input, child.pos, Append(children, child.value)))
      ELSE Returned(w.pos, Complete("And", children)))

\* QueryParser::ParseAnd
ParseAnd(input, pos) ==
    Then(ParseSimple(input, pos), LAMBDA leftSimple :
      ParseAndLoop(input, leftSimple.pos, <<leftSimple.value>>))

\* QueryParser::ParseOr: the for loop, with the children added so far.
ParseOrLoop(input, pos, children) ==
    Then(SkipWhite(input, pos), LAMBDA w :
      IF PeekChar(input, w.pos) # "|"
      THEN Returned(w.pos, Complete("Or", children))
      ELSE Then(GetChar(input, w.pos), LAMBDA g :
           Then(ParseAnd(input, g.pos), LAMBDA child :
             ParseOrLoop(input, child.pos, Append(children, child.value)))))

\* QueryParser::ParseOr
ParseOr(input, pos) ==
    Then(ParseAnd(input, pos), LAMBDA left :
      ParseOrLoop(input, left.pos, <<left.value>>))

\* QueryParser::Parse on a parser constructed for the input.
Parse(input) == ParseOr(input, 0)

\* Characters the inputs are made of: a letter, a space and every character
\* the grammar gives a meaning to.
Alphabet == {"a", " ", "&", "|", "(", ")", ":", "-", "\"", "\\"}

\* Every input of at most n characters.
RECURSIVE InputsUpTo(_)
InputsUpTo(n) ==
    IF n = 0 THEN {<<>>}
    ELSE LET shorter == InputsUpTo(n - 1)
         IN  shorter \cup {Append(s, c) : s \in shorter, c \in Alphabet}

\* cat dog | -"hello world" stream:foo
ExampleQuery ==
    <<"c", "a", "t", " ", "d", "o", "g", " ", "|", " ", "-", "\"",
      "h", "e", "l", "l", "o", " ", "w", "o", "r", "l", "d", "\"", " ",
      "s", "t", "r", "e", "a", "m", ":", "f", "o", "o">>

\* A parser is constructed on any short input or on the example query.
ParserInit ==
    /\ NewShard
    /\ \E input \in InputsUpTo(MaxInputLen) \cup {ExampleQuery} :
          lastCall = [op |-> "none", input |-> input,
                      result |-> Returned(0, Null)]

CallParse ==
    /\ lastCall.op = "none"
    /\ lastCall' = [op |-> "Parse", input |-> lastCall.input,
                    result |-> Parse(lastCall.input)]
    /\ UNCHANGED <<slices, allocLog, commitTrue, shardVars>>

ParserNext == CallParse

ParserSpec == ParserInit /\ [][ParserNext]_vars

\* ------------------------------------------------------------ FileManager
\* Directory names a caller may pass; two arguments may name the same one.
Directories == {"dirA", "dirB", "dirC"}

\* ParameterizedFile0 / ParameterizedFile1 (path, baseName, extension): the
\* directory the files of that name are placed in.
ParameterizedFile(path, baseName, extension) == path

\* FileManager::FileManager(intermediateDirectory, indexDirectory,
\* backupDirectory): the third parameter is unnamed and unused.
FileManager(intermediateDirectory, indexDirectory, backupDirectory) ==
    [CumulativeTermCounts |->
         ParameterizedFile(intermediateDirectory, "CumulativeTermCounts", ".csv"),
     DocFreqTable |-> ParameterizedFile(indexDirectory, "DocFreqTable", ".csv"),
     DocumentLengthHistogram |->
         ParameterizedFile(intermediateDirectory, "DocumentLengthHistogram",
                           ".csv"),
     IndexedIdfTable |->
         ParameterizedFile(indexDirectory, "IndexedIdfTable", ".bin"),
     TermTable |-> ParameterizedFile(indexDirectory, "TermTable", ".bin"),
     TermToText |-> ParameterizedFile(indexDirectory, "TermToText", ".bin")]

\* Factories::CreateFileManager(intermediateDirectory, indexDirectory,
\* backupDirectory): new FileManager(intermediateDirectory, backupDirectory,
\* indexDirectory)
CreateFileManager(intermediateDirectory, indexDirectory, backupDirectory) ==
    FileManager(intermediateDirectory, backupDirectory, indexDirectory)

\* Ingestor::WriteStatistics: the files it opens for writing, in its order,
\* for the one shard of the index.
StatisticsFiles ==
    <<"DocumentLengthHistogram", "CumulativeTermCounts", "DocFreqTable",
      "IndexedIdfTable">>

\* A caller picks the three directories.
FileInit ==
    /\ NewShard
    /\ \E i \in Directories, x \in Directories, b \in Directories :
          lastCall = [op |-> "none", intermediateDirectory |-> i,
                      indexDirectory |-> x, backupDirectory |-> b,
                      fileManager |-> <<>>, written |-> <<>>]

CallCreateFileManager ==
    /\ lastCall.op = "none"
    /\ lastCall' = [lastCall EXCEPT
                      !.op = "CreateFileManager",
                      !.fileManager =
                          CreateFileManager(lastCall.intermediateDirectory,
                                            lastCall.indexDirectory,
                                            lastCall.backupDirectory)]
    /\ UNCHANGED <<slices, allocLog, commitTrue, shardVars>>

\* Ingestor::WriteStatistics: the next OpenForWrite; written collects the
\* directory and the name of each file opened.
WriteStatistics ==
    /\ lastCall.op \in {"CreateFileManager", "WriteStatistics"}
    /\ Len(lastCall.written) < Len(StatisticsFiles)
    /\ LET name == StatisticsFiles[Len(lastCall.written) + 1]
       IN  lastCall' = [lastCall EXCEPT
                          !.op = "WriteStatistics",
                          !.written = Append(@, [directory |->
                                                    lastCall.fileManager[name],
                                                 name |-> name])]
    /\ UNCHANGED <<slices, allocLog, commitTrue, shardVars>>

FileNext == CallCreateFileManager \/ WriteStatistics

FileSpec == FileInit /\ [][FileNext]_vars

\* ================================================================= claims
CommittedCount(sl) == sl.capacity - sl.unallocated - sl.commitPending

\* C1: in every reachable state of every Slice, after any sequence of
\* TryAllocateDocument, CommitDocument and ExpireDocument calls,
\* unallocated + commitPending + expired <= capacity and
\* expired <= capacity - unallocated - commitPending (no counter underflows).
C1_SliceCounters ==
    \A s \in SliceIds :
        LET sl == slices[s]
        IN  /\ sl.unallocated >= 0 /\ sl.commitPending >= 0 /\ sl.expired >= 0
            /\ sl.unallocated + sl.commitPending + sl.expired <= sl.capacity
            /\ sl.expired <= sl.capacity - sl.unallocated - sl.commitPending

\* A successful expire that leaves expired = committed while columns are still
\* unallocated and a commit is pending: the bounds of C1 are tight here.
C1_Witness ==
    /\ lastCall.op = "ExpireDocument" /\ lastCall.err = "none"
    /\ LET sl == slices[lastCall.slice]
       IN  /\ sl.expired = CommittedCount(sl)
           /\ sl.commitPending > 0
           /\ sl.expired > 0

\* C2: the k-th successful TryAllocateDocument of a Slice returns k-1 (so the
\* returned indexes are strictly increasing and a prefix of [0, capacity)),
\* a call made when unallocated = 0 returns false and changes no counter,
\* and exactly capacity calls succeed.
C2_AllocationPrefix ==
    /\ \A s \in SliceIds :
          /\ Len(allocLog[s]) = slices[s].capacity - slices[s].unallocated
          /\ Len(allocLog[s]) <= slices[s].capacity
          /\ \A k \in 1..Len(allocLog[s]) : allocLog[s][k] = k - 1
    /\ lastCall.op = "TryAllocateDocument" =>
          /\ lastCall.ret = (lastCall.before.unallocated > 0)
          /\ ~lastCall.ret => slices[lastCall.slice] = lastCall.before

\* A call on a slice that has handed out all its columns was refused.
C2_Witness ==
    /\ lastCall.op = "TryAllocateDocument" /\ ~lastCall.ret
    /\ Len(allocLog[lastCall.slice]) = SliceCapacity

\* The slices a reader or a deleting thread may dereference under its token.
Reachable(h) ==
    IF h \in Readers
    THEN IF readers[h].vec = Null THEN {}
         ELSE {vectors[readers[h].vec].content[i] :
                   i \in DOMAIN vectors[readers[h].vec].content}
    ELSE IF threads[h].slice = Null THEN {} ELSE {threads[h].slice}

\* C3: a slice buffer is never released, and a superseded slice-buffer vector
\* never deleted, while a token that was outstanding when the item was
\* scheduled is still held: a reader that loaded the published vector under
\* its token finds that vector, and every buffer named in it, still allocated
\* for as long as it holds the token, and so does a Delete for its slice.
C3_NoReleaseUnderToken ==
    /\ \A r \in Readers :
          (r \in tokens /\ readers[r].vec # Null) =>
              /\ vectors[readers[r].vec].state = "live"
              /\ \A s \in Reachable(r) : slices[s].state = "live"
    /\ \A t \in Threads :
          t \in tokens => \A s \in Reachable(t) : slices[s].state = "live"
    /\ \A i \in DOMAIN queue :
          /\ vectors[queue[i].vec].state = "live"
          /\ queue[i].slice # Null => slices[queue[i].slice].state = "live"

\* A reader still holds a vector naming a slice whose item is parked in the
\* recycler, waiting for that reader's token.
C3_Witness ==
    \E r \in Readers, i \in DOMAIN queue :
        /\ r \in tokens
        /\ queue[i].slice # Null
        /\ queue[i].slice \in Reachable(r)
        /\ r \in queue[i].snapshot
        /\ readers[r].vec # sliceBuffers

\* The call of thread t ends with this step.
Completes(t) == threads[t].pc # "idle" /\ threads'[t].pc = "idle"

\* C4 as stated: Contains(id) follows the most recent Add(id, .) or Delete(id),
\* failed Adds included: every Add that ends has made or found id mapped at
\* its DocumentMap step, every Delete has left it unmapped, and nothing else
\* changes Contains(id).
C4_ContainsIffLastWasAdd ==
    [][\A t \in Threads :
          /\ (threads[t].pc = "map" /\ threads'[t].pc # "map") =>
                Find(documentMap', threads[t].id)
          /\ (threads[t].pc = "idle" /\ threads'[t].op = "Delete") =>
                ~Find(documentMap', threads'[t].id)
          /\ (Completes(t) /\ threads[t].op = "Add") =>
                \/ threads[t].pc = "map"
                \/ threads[t].failure = "DuplicateId"
          /\ (\A u \in Threads : threads[u].pc # "map"
                                 /\ ~(threads[u].pc = "idle"
                                      /\ threads'[u].op = "Delete")) =>
                documentMap' = documentMap]_vars

\* C4 amended: Contains(id) follows the most recent of the Adds of id that
\* reached the DocumentMap insertion (successful ones and duplicates) and the
\* Deletes of id: the insertion step leaves id mapped, the Delete leaves it
\* unmapped, and no other step, an Add that fails before the insertion
\* included, changes Contains(id).
C4_ContainsFollowsMapSteps ==
    [][\A t \in Threads :
          /\ (threads[t].pc = "map" /\ threads'[t].pc # "map") =>
                Find(documentMap', threads[t].id)
          /\ (threads[t].pc = "idle" /\ threads'[t].op = "Delete") =>
                ~Find(documentMap', threads'[t].id)
          /\ (\A u \in Threads : threads[u].pc # "map"
                                 /\ ~(threads[u].pc = "idle"
                                      /\ threads'[u].op = "Delete")) =>
                documentMap' = documentMap]_vars

\* An Add that found its id already mapped is rolling back, after a Delete
\* and a second Add of that id have completed (the slice of the mapping is
\* not the first one only if the first mapping was deleted).
C4_Witness ==
    \E t \in Threads :
        /\ threads[t].op = "Add"
        /\ threads[t].failure = "DuplicateId"
        /\ Contains(threads[t].id)
        /\ \E s \in SliceIds : slices[s].expired > 0

\* C5 as stated: when a step of Add after AllocateDocument fails,
\* handle.Expire() has been invoked on the allocated handle by the time the
\* failure leaves Add.
C5_FailedAddExpires ==
    [][\A t \in Threads :
          (Completes(t) /\ threads[t].op = "Add" /\ threads[t].pc # "map") =>
              threads[t].expireCalled]_vars

\* C6 as stated: whenever the active slice is non-null it has unallocated > 0.
C6_ActiveHasRoom ==
    activeSlice # Null => slices[activeSlice].unallocated > 0

\* C6 amended: the active slice, when non-null, is a live slice that may have
\* no unallocated column left; the AllocateDocument that finds it so (or finds
\* none) makes a new slice active and returns column 0 of it, and every other
\* AllocateDocument returns the next column of the active slice and keeps it.
C6_FullActiveIsReplaced ==
    /\ [](activeSlice # Null =>
             /\ slices[activeSlice].state = "live"
             /\ slices[activeSlice].unallocated >= 0)
    /\ [][\A t \in Threads :
             (threads[t].pc = "idle" /\ threads'[t].op = "Add") =>
                 LET h == threads'[t]
                 IN  IF activeSlice = Null \/ slices[activeSlice].unallocated = 0
                     THEN /\ activeSlice' # activeSlice
                          /\ slices[activeSlice'].state = "unborn"
                          /\ h.slice = activeSlice' /\ h.index = 0
                          /\ slices'[h.slice].unallocated = SliceCapacity - 1
                     ELSE /\ activeSlice' = activeSlice
                          /\ h.slice = activeSlice
                          /\ h.index = SliceCapacity - slices[activeSlice].unallocated
                          /\ slices'[h.slice].unallocated =
                                 slices[h.slice].unallocated - 1]_vars

\* AllocateDocument has handed out the last column of the active slice, which
\* is still the active slice.
C6_Witness ==
    /\ activeSlice # Null
    /\ slices[activeSlice].unallocated = 0
    /\ \E t \in Threads : threads[t].pc = "ingest" /\ threads[t].slice = activeSlice
                          /\ threads[t].index = SliceCapacity - 1

\* C7: CommitDocument returns true exactly when, after its decrement,
\* unallocated = 0 and commitPending = 0; over any interleaving of the
\* allocations and commits of one Slice exactly one call returns true, the
\* one that leaves nothing unallocated and nothing pending.
C7_CommitReportsFull ==
    /\ lastCall.op = "CommitDocument" /\ lastCall.err = "none" =>
          (lastCall.ret <=> (/\ slices[lastCall.slice].unallocated = 0
                             /\ slices[lastCall.slice].commitPending = 0))
    /\ \A s \in SliceIds :
          commitTrue[s] = IF slices[s].unallocated = 0 /\ slices[s].commitPending = 0
                          THEN 1 ELSE 0

\* The commit that left nothing unallocated and nothing pending returned true,
\* on a slice where an expire had already run between the commits.
C7_Witness ==
    /\ lastCall.op = "CommitDocument" /\ lastCall.ret
    /\ commitTrue[lastCall.slice] = 1
    /\ lastCall.before.expired > 0

C9_ExpiredIsFinal ==
    [][\A s \in SliceIds :
          IsExpired(slices[s]) =>
              /\ IsExpired(slices'[s])
              /\ slices'[s] = slices[s]
              /\ lastCall'.slice = s =>
                    /\ ~lastCall'.ret
                    /\ lastCall'.op = "CommitDocument" => lastCall'.err # "none"]_vars

\* A commit was attempted on a fully expired slice.
C9_Witness ==
    /\ lastCall.op = "CommitDocument"
    /\ IsExpired(lastCall.before)

\* C10: after a fully expired Slice's refCount reaches 0 its buffer is
\* eventually released, exactly once (the allocator's in-use count is the
\* number of slices constructed and not yet destroyed), provided every token
\* outstanding when it was scheduled is eventually dropped; tokens requested
\* later may be held forever without delaying the release.
C10_EventuallyReleasedOnce ==
    /\ [](\A s \in SliceIds : released[s] <= 1)
    /\ [](inUse = Cardinality({s \in SliceIds : slices[s].state = "live"}))
    /\ \A s \in SliceIds :
          (slices[s].state = "live" /\ slices[s].refCount = 0)
              ~> (slices[s].state = "destroyed" /\ released[s] = 1)

\* A slice was released while a reader that took its token after the slice
\* had been scheduled still holds it.
C10_Witness ==
    \E s \in SliceIds, r \in Readers :
        /\ slices[s].state = "destroyed"
        /\ released[s] = 1
        /\ r \in tokens

\* The position of slice s in the recycler's queue, if it has one.
Scheduled(s) == \E i \in DOMAIN queue : queue[i].slice = s

\* C11: Shard::RecycleSlice is called for a Slice exactly when a
\* DecrementRefCount takes its refCount from 1 to 0: while a reference is
\* left (an IncrementRefCount and one DecrementRefCount on a slice with
\* refCount 1, for instance) nothing is scheduled and the buffer stays in
\* use, and of the decrements that take a slice from refCount n to 0 exactly
\* one, the last, calls RecycleSlice.
C11_RecycleExactlyAtZero ==
    /\ lastCall.op = "DecrementRefCount" =>
          (lastCall.ret <=> lastCall.before.refCount = 1)
    /\ \A s \in SliceIds :
          /\ (slices[s].state # "unborn" /\ slices[s].refCount >= 1) =>
                /\ slices[s].state = "live"
                /\ ~Scheduled(s)
                /\ released[s] = 0
          /\ recycleCalls[s] =
                IF slices[s].state # "unborn" /\ slices[s].refCount = 0
                THEN 1 ELSE 0
    /\ inUse = Cardinality({s \in SliceIds : slices[s].state = "live"})

\* A second holder's reference has been dropped on a fully expired slice:
\* one reference is left and the slice is neither scheduled nor released.
C11_Witness ==
    /\ lastCall.op = "DecrementRefCount"
    /\ lastCall.before.refCount = 2
    /\ IsExpired(slices[lastCall.slice])
    /\ slices[lastCall.slice].refCount = 1
    /\ inUse >= 1

\* C12: RecycleSlice on a Slice that is not fully expired raises a
\* RecoverableError and changes nothing: the published vector, the active
\* slice and the slice's counters are as before and nothing is submitted to
\* the recycler; a RecycleSlice repeated once the slice has expired succeeds,
\* taking the buffer out of the published vector and scheduling the slice.
C12_RecycleNotExpiredNoMutation ==
    [][LET s == lastCall'.slice
           called == \/ lastCall'.op = "RecycleSlice"
                     \/ lastCall'.op = "DecrementRefCount" /\ lastCall'.ret
       IN  (lastCall' # lastCall /\ called) =>
               IF ~IsExpired(lastCall'.before)
               THEN /\ lastCall'.err = "RecoverableError"
                    /\ vectors' = vectors
                    /\ sliceBuffers' = sliceBuffers
                    /\ activeSlice' = activeSlice
                    /\ queue' = queue
                    /\ inUse' = inUse
                    /\ slices'[s].unallocated = slices[s].unallocated
                    /\ slices'[s].commitPending = slices[s].commitPending
                    /\ slices'[s].expired = slices[s].expired
               ELSE /\ lastCall'.err = "none"
                    /\ \A i \in DOMAIN vectors'[sliceBuffers'].content :
                          vectors'[sliceBuffers'].content[i] # s
                    /\ \E i \in DOMAIN queue' : queue'[i].slice = s
                    /\ vectors'[sliceBuffers] = vectors[sliceBuffers]]_vars

\* RecycleSlice has been repeated with success on a slice whose first
\* RecycleSlice, from the DecrementRefCount that dropped the last reference
\* before the slice had expired, had failed.
C12_Witness ==
    /\ lastCall.op = "RecycleSlice"
    /\ lastCall.err = "none"
    /\ recycleCalls[lastCall.slice] = 1
    /\ Scheduled(lastCall.slice)

\* C13 as stated: m_slicesLock is never held while a slice buffer is obtained
\* from the allocator nor while an item is submitted to the recycler.
C13_NoBlockingCallUnderLock == underLock = {}

\* C14: Delete(id) for an id with no DocumentMap entry returns false, raises
\* no error and leaves the DocumentMap, every slice's counters and every row
\* bit unchanged.
C14_DeleteMissingIsNoOp ==
    [][\A t \in Threads :
          /\ (/\ threads[t].pc = "idle" /\ threads'[t].op = "Delete"
              /\ documentMap[threads'[t].id] = NoHandle) =>
                /\ threads'[t].pc = "del_return"
                /\ ~threads'[t].isFound
                /\ threads'[t].failure = "none"
                /\ documentMap' = documentMap
                /\ slices' = slices
          /\ (/\ threads[t].pc = "del_return" /\ ~threads[t].isFound
              /\ threads'[t].pc = "idle") =>
                /\ threads[t].failure = "none"
                /\ ~threads[t].expireCalled
                /\ documentMap' = documentMap
                /\ slices' = slices]_vars

\* A Delete is about to return false for an id that is not mapped, on a shard
\* that holds columns it could have damaged.
C14_Witness ==
    \E t \in Threads :
        /\ threads[t].pc = "del_return" /\ ~threads[t].isFound
        /\ ~Contains(threads[t].id)
        /\ \E s \in SliceIds : slices[s].state = "live" /\ slices[s].expired > 0

SizeFor(c) ==
    InitializeDescriptors(c, lastCall.schema, lastCall.termTable).sliceBufferSize

\* C16: whenever GetCapacityForByteSize returns, it returns the unique
\* capacity c that is a positive multiple of the quantum
\* DocumentsInRank0Row(1, maxRankUsed) with
\* InitializeDescriptors(c) <= sliceBufferSize < InitializeDescriptors(c + quantum).
C16_CapacityFits ==
    (lastCall.op = "GetCapacityForByteSize" /\ lastCall.outcome = "returns") =>
        LET quantum == DocumentsInRank0Row(1, GetMaxRankUsed(lastCall.termTable))
            size == lastCall.bufferSizeInBytes
            Fits(c) == SizeFor(c) <= size /\ size < SizeFor(c + quantum)
        IN  /\ lastCall.capacity > 0
            /\ lastCall.capacity % quantum = 0
            /\ Fits(lastCall.capacity)
            /\ \A k \in 1..LoopLimit :
                  Fits(k * quantum) => k * quantum = lastCall.capacity

\* The search returned more than one quantum for a buffer that the layout of
\* the returned capacity fills exactly.
C16_Witness ==
    /\ lastCall.op = "GetCapacityForByteSize" /\ lastCall.outcome = "returns"
    /\ lastCall.capacity >
           DocumentsInRank0Row(1, GetMaxRankUsed(lastCall.termTable))
    /\ SizeFor(lastCall.capacity) = lastCall.bufferSizeInBytes

\* C17: for the Slice constructed on a Shard, GetSliceFromBuffer(buffer,
\* GetSlicePtrOffset()) is the address of that Slice, with GetSlicePtrOffset()
\* = sliceBufferSize - pointerSize, in the state after construction and after
\* every sequence of AddPosting, AssertFact, allocate, commit and expire calls.
C17_BufferLeadsBackToSlice ==
    GetSliceFromBuffer(buffer.mem,
                       GetSlicePtrOffset(buffer.shard.sliceBufferSize))
        = AddressOf(TheSlice)

\* A buffer without padding whose last table byte, the one before the
\* pointer, has been written, on a slice that has expired a document.
C17_Witness ==
    /\ buffer.shard.sliceBufferSize
          = InitializeDescriptors(buffer.shard.capacity, buffer.shard.schema,
                                  buffer.shard.termTable).sliceBufferSize
    /\ buffer.mem[buffer.shard.sliceBufferSize - PointerSize - 1] # {}
    /\ buffer.mem # SliceBuffer(buffer.shard, TheSlice)
    /\ slices[TheSlice].expired > 0
    /\ GetSliceFromBuffer(buffer.mem,
                          buffer.shard.sliceBufferSize - PointerSize)
          = AddressOf(TheSlice)

\* C18: Shard::AssertFact with a fact term of exactly one row raises nothing
\* and sets (value true) or clears (value false) the bit of (row, docIndex),
\* leaving every other bit of the buffer as it was; with a term of zero rows
\* or of more than one row it raises a RecoverableError and changes no bit.
C18_AssertFactOneBit ==
    [][lastCall'.op = "AssertFact" =>
          IF Cardinality(lastCall'.rows) = 1
          THEN /\ lastCall'.err = "none"
               /\ \A row \in lastCall'.rows :
                  \A at \in {BitPosition(buffer.shard, row, lastCall'.index)} :
                  \A o \in DOMAIN buffer.mem :
                     buffer'.mem[o] =
                        IF o # at.byte THEN buffer.mem[o]
                        ELSE IF lastCall'.value
                             THEN buffer.mem[o] \cup {at.bit}
                             ELSE buffer.mem[o] \ {at.bit}
          ELSE /\ lastCall'.err = "RecoverableError"
               /\ buffer'.mem = buffer.mem]_vars

\* AssertFact has just cleared a bit that was set, on a one-row fact, and the
\* bit of another row of the same document is still set.
C18_Witness ==
    /\ lastCall.op = "AssertFact" /\ lastCall.err = "none"
    /\ ~lastCall.value
    /\ \E row \in RowIds(buffer.shard.termTable) :
          /\ row \notin lastCall.rows
          /\ LET p == BitPosition(buffer.shard, row, lastCall.index)
             IN  p.bit \in buffer.mem[p.byte]
    /\ LET p == BitPosition(buffer.shard, CHOOSE id \in lastCall.rows : TRUE,
                            lastCall.index)
       IN  p.bit \notin buffer.mem[p.byte]

\* C19: CommitDocument on a Slice whose commitPending is 0 fails with a
\* fatal assertion, not with a recoverable exception, and leaves unallocated,
\* commitPending and expired as they were.
C19_CommitWithoutPendingIsFatal ==
    (lastCall.op = "CommitDocument" /\ lastCall.before.commitPending = 0) =>
        /\ lastCall.err = "FatalAssert"
        /\ slices[lastCall.slice].unallocated = lastCall.before.unallocated
        /\ slices[lastCall.slice].commitPending = lastCall.before.commitPending
        /\ slices[lastCall.slice].expired = lastCall.before.expired

\* CommitDocument has just failed on a slice that had committed one document
\* and expired it, with a column still unallocated.
C19_Witness ==
    /\ lastCall.op = "CommitDocument" /\ lastCall.before.commitPending = 0
    /\ lastCall.err = "FatalAssert"
    /\ lastCall.before.expired > 0
    /\ lastCall.before.unallocated > 0
    /\ slices[lastCall.slice] = lastCall.before

\* C20: once Ingestor::Shutdown has been called no RequestToken is granted;
\* Shutdown returns only when every token that was outstanding at the call
\* has been dropped; and it does return, given that the holders of those
\* tokens drop them.
C20_ShutdownRefusesAndDrains ==
    /\ [][shutdown.state # "no" => tokens' \subseteq tokens]_vars
    /\ [](shutdown.state = "returned" => shutdown.outstanding \cap tokens = {})
    /\ (shutdown.state = "waiting") ~> (shutdown.state = "returned")

\* Shutdown has returned after waiting for more than one holder, and a
\* request made after the call was refused.
C20_Witness ==
    /\ shutdown.state = "returned"
    /\ Cardinality(shutdown.outstanding) > 1
    /\ lastCall.op = "RequestToken" /\ lastCall.err = "refused"

\* The tree the example query stands for.
ExampleTree ==
    LET Unigram(text, streamId) ==
            [type |-> "Unigram", text |-> text, streamId |-> streamId]
        Node(type, children) == [type |-> type, children |-> children]
        phrase == [type |-> "Phrase",
                   grams |-> << <<"h", "e", "l", "l", "o">>,
                                <<"w", "o", "r", "l", "d">> >>,
                   streamId |-> 0]
    IN  Node("Or",
             << Node("And", << Unigram(<<"c", "a", "t">>, 0),
                               Unigram(<<"d", "o", "g">>, 0) >>),
                Node("And", << Node("Not", << phrase >>),
                               Unigram(<<"f", "o", "o">>,
                                   StreamIdFromText(<<"s", "t", "r", "e",
                                                      "a", "m">>)) >>) >>)

\* Short queries, one for each rule, with the trees they stand for.
ShortQueries ==
    LET a == [type |-> "Unigram", text |-> <<"a">>, streamId |-> 0]
        Node(type, children) == [type |-> type, children |-> children]
    IN  { [input |-> <<"a", " ", "a">>, tree |-> Node("And", <<a, a>>)],
          [input |-> <<"a", "&", "a">>, tree |-> Node("And", <<a, a>>)],
          [input |-> <<"a", "|", "a">>, tree |-> Node("Or", <<a, a>>)],
          [input |-> <<"-", "a", " ", "a">>,
           tree |-> Node("And", <<Node("Not", <<a>>), a>>)],
          [input |-> <<"a", ":", "a">>,
           tree |-> [a EXCEPT !.streamId = StreamIdFromText(<<"a">>)]],
          [input |-> <<"a">>, tree |-> a] }

C22_ErrorPositionIsOffset ==
    (lastCall.op = "Parse" /\ lastCall.result.err = "ParseError") =>
        lastCall.result.position = lastCall.result.pos

\* The input is one token written with escapes: plain token characters, and
\* backslashes each followed by a character that may be escaped.
RECURSIVE IsEscapedToken(_)
IsEscapedToken(input) ==
    IF input = <<>> THEN TRUE
    ELSE IF Head(input) = "\\"
    THEN /\ Len(input) >= 2
         /\ input[2] \in {"&", "|", "\\", "(", ")", "\"", ":", "-"}
         /\ IsEscapedToken(Tail(Tail(input)))
    ELSE /\ Head(input) \notin {" ", "&", "|", "(", ")", ":", "-", "\""}
         /\ IsEscapedToken(Tail(input))

\* The characters such an input stands for.
RECURSIVE Unescaped(_)
Unescaped(input) ==
    IF input = <<>> THEN <<>>
    ELSE IF Head(input) = "\\"
    THEN <<input[2]>> \o Unescaped(Tail(Tail(input)))
    ELSE <<Head(input)>> \o Unescaped(Tail(input))

\* The backslash at i starts an escape: an even number of backslashes
\* stands right before it.
StartsEscape(input, i) ==
    /\ input[i] = "\\"
    /\ \E k \in 0..(i - 1) :
          /\ k % 2 = 0
          /\ \A j \in (i - k)..(i - 1) : input[j] = "\\"
          /\ (i - k = 1 \/ input[i - k - 1] # "\\")

\* C23: in a token a backslash followed by one of & | \ ( ) " : - adds that
\* character to the token and does not end it, so that an input written as
\* one escaped token is the unigram of its unescaped characters (\& is the
\* unigram &); a backslash followed by any other character or by the end of
\* the input, when the parser gets to it, raises a ParseError.
C23_EscapesInTokens ==
    lastCall.op = "Parse" =>
        /\ (lastCall.input # <<>> /\ IsEscapedToken(lastCall.input)) =>
              /\ lastCall.result.err = "none"
              /\ lastCall.result.pos = Len(lastCall.input)
              /\ lastCall.result.value =
                    [type |-> "Unigram", text |-> Unescaped(lastCall.input),
                     streamId |-> 0]
        /\ \A i \in DOMAIN lastCall.input :
              ( /\ StartsEscape(lastCall.input, i)
                /\ \A j \in 1..(i - 1) : lastCall.input[j] # ")"
                /\ \/ i = Len(lastCall.input)
                   \/ lastCall.input[i + 1] \notin
                         {"&", "|", "\\", "(", ")", "\"", ":", "-"} )
              => lastCall.result.err = "ParseError"

\* The input \& has been parsed to the unigram &.
C23_Witness ==
    /\ lastCall.op = "Parse"
    /\ lastCall.input = <<"\\", "&">>
    /\ lastCall.result.err = "none"
    /\ lastCall.result.value =
          [type |-> "Unigram", text |-> <<"&">>, streamId |-> 0]

\* C24: Ingestor::AssertFact, OpenGroup, CloseGroup, ExpireGroup and
\* GetUsedCapacityInBytes fail with NotImplemented for every argument and in
\* every state, and leave the DocumentMap, the shard and slice state and the
\* tokens as they were.
C24_UnimplementedCallsThrow ==
    [][lastCall' # lastCall =>
          /\ lastCall'.op \in {"AssertFact", "OpenGroup", "CloseGroup",
                               "ExpireGroup", "GetUsedCapacityInBytes"}
          /\ lastCall'.err = "NotImplemented"
          /\ documentMap' = documentMap
          /\ slices' = slices
          /\ activeSlice' = activeSlice
          /\ sliceBuffers' = sliceBuffers
          /\ vectors' = vectors
          /\ inUse' = inUse
          /\ queue' = queue
          /\ tokens' = tokens
          /\ shutdown' = shutdown]_vars

\* ExpireGroup has just failed on an ingestor that holds a document, while a
\* reader has a token and a thread is in the middle of a call.
C24_Witness ==
    /\ lastCall.op = "ExpireGroup" /\ lastCall.err = "NotImplemented"
    /\ \E d \in DocIds : documentMap[d] # NoHandle
    /\ tokens # {}
    /\ \E t \in Threads : threads[t].pc # "idle"

\* The DocIndexes a slice has handed out so far.
Allocated(s) == {allocLog[s][i] : i \in DOMAIN allocLog[s]}

\* C25: the (slice, DocIndex) pairs returned by the AllocateDocument calls on
\* a shard are pairwise distinct and below the slice capacity, however the
\* calls interleave; each is in the slice that is active when its call
\* completes; a slice is created only by a call that finds no active slice
\* or a full one, and the first DocIndex of the new slice is 0.
C25_AllocationsAreDistinct ==
    /\ [](\A s \in SliceIds :
             /\ Cardinality(Allocated(s)) = Len(allocLog[s])
             /\ \A i \in Allocated(s) : i < SliceCapacity)
    /\ [][allocLog' # allocLog =>
            \E t \in Threads, s \in SliceIds, index \in 0..(SliceCapacity - 1) :
               /\ threads[t].pc = "idle" /\ threads'[t].op = "Add"
               /\ threads'[t].slice = s /\ threads'[t].index = index
               /\ allocLog' = [allocLog EXCEPT ![s] = Append(@, index)]
               /\ index \notin Allocated(s)
               /\ activeSlice' = s
               /\ slices[s].state = "unborn" =>
                     /\ \/ activeSlice = Null
                        \/ slices[activeSlice].unallocated = 0
                     /\ index = 0
               /\ slices[s].state # "unborn" => activeSlice = s]_vars

\* Two Add calls are in progress with columns of different slices: the first
\* slice filled up and the second allocation started a new one.
C25_Witness ==
    /\ allocLog[1] = <<0, 1>>
    /\ allocLog[2] = <<0>>
    /\ activeSlice = 2
    /\ \E t1, t2 \in Threads :
          /\ t1 # t2
          /\ threads[t1].op = "Add" /\ threads[t2].op = "Add"
          /\ threads[t1].pc = "ingest" /\ threads[t2].pc = "ingest"
          /\ threads[t1].slice = 1 /\ threads[t2].slice = 2

\* The slices a successful Shard::RecycleSlice has removed: the caller is
\* about to schedule them, or they are parked in the recycler, or destroyed.
Recycled ==
    {s \in SliceIds :
        \/ slices[s].state = "destroyed"
        \/ \E i \in DOMAIN queue : queue[i].slice = s
        \/ \E t \in Threads : threads[t].pc = "recycle_schedule"
                              /\ threads[t].slice = s}

\* C26: the published slice-buffer vector holds, once each and in creation
\* order, the buffers of the slices that CreateNewActiveSlice created and no
\* successful RecycleSlice removed; CreateNewActiveSlice publishes the old
\* vector plus the new buffer, RecycleSlice the old vector minus the buffer
\* of its slice; a vector that was published is never modified.
C26_PublishedVectorIsLiveSlices ==
    /\ [](LET content == vectors[sliceBuffers].content
          IN  /\ \A i, j \in DOMAIN content : i < j => content[i] < content[j]
              /\ {content[i] : i \in DOMAIN content} =
                    {s \in SliceIds : slices[s].state # "unborn"} \ Recycled)
    /\ [][sliceBuffers' # sliceBuffers =>
            LET old == vectors[sliceBuffers].content
                new == vectors'[sliceBuffers'].content
            IN  /\ sliceBuffers' \notin DOMAIN vectors
                /\ \/ \E s \in SliceIds :
                         /\ slices[s].state = "unborn"
                         /\ slices'[s].state = "live"
                         /\ new = old \o <<s>>
                   \/ \E s \in Recycled' \ Recycled :
                         /\ \E i \in DOMAIN old : old[i] = s
                         /\ new = SelectSeq(old, LAMBDA b : b # s)]_vars
    /\ [][\A v \in DOMAIN vectors :
            vectors'[v].content = vectors[v].content]_vars

\* The first slice has been recycled while the second is live: the published
\* vector holds the second buffer alone, and older vectors still exist.
C26_Witness ==
    /\ vectors[sliceBuffers].content = <<2>>
    /\ 1 \in Recycled
    /\ \E v \in DOMAIN vectors : vectors[v].content = <<1, 2>>

\* C27: when Add(id, d) finds id already mapped, the DocumentMap insertion
\* fails and leaves the map as it was; the rollback expires the column of the
\* failed Add exactly once (the expired count of its slice goes up by one and
\* the active-document bit of the column is cleared), no later step of the
\* call touches the count or the map, and the call ends with the failure of
\* the insertion.
C27_DuplicateAddRollsBack ==
    [][\A t \in Threads :
          (threads[t].op = "Add" /\ threads'[t] # threads[t]) =>
             LET s == threads[t].slice
             IN  /\ (threads[t].pc = "map" /\ Find(documentMap, threads[t].id)) =>
                       /\ documentMap' = documentMap
                       /\ slices' = slices
                       /\ threads'[t].pc = "exp_expire"
                       /\ threads'[t].failure = "DuplicateId"
                 /\ threads[t].pc = "exp_expire" =>
                       /\ threads[t].failure = "DuplicateId"
                       /\ documentMap' = documentMap
                       /\ slices'[s].expired = slices[s].expired + 1
                       /\ threads[t].index \in slices[s].activeRow
                       /\ threads[t].index \notin slices'[s].activeRow
                       /\ threads'[t].pc \in {"idle", "recycle_locked"}
                 /\ threads[t].pc \in {"recycle_locked", "recycle_schedule"} =>
                       /\ threads[t].failure = "DuplicateId"
                       /\ documentMap' = documentMap
                       /\ slices'[s].expired = slices[s].expired
                       /\ threads'[t].pc \in {"idle", "recycle_schedule"}]_vars

\* The rollback of a refused Add has expired the last column of its slice and
\* is about to recycle it, while the id still maps to the earlier column.
C27_Witness ==
    \E t \in Threads :
        /\ threads[t].op = "Add" /\ threads[t].failure = "DuplicateId"
        /\ threads[t].pc = "recycle_locked"
        /\ documentMap[threads[t].id] # NoHandle
        /\ documentMap[threads[t].id] #
              [slice |-> threads[t].slice, index |-> threads[t].index]
        /\ threads[t].index \notin slices[threads[t].slice].activeRow

\* The column has been handed out by its slice and no Add still has it
\* between AllocateDocument and CommitDocument.
ColumnCommitted(h) ==
    /\ h.index \in Allocated(h.slice)
    /\ \A t \in Threads :
          ~(threads[t].pc = "ingest" /\ threads[t].slice = h.slice
                                     /\ threads[t].index = h.index)

\* C28: each Add goes through AllocateDocument, then Ingest, Activate and
\* CommitDocument, then the DocumentMap insertion, in this order; so in every
\* state of every interleaving a mapped id maps to a column that has been
\* activated and committed in its slice.
C28_MappedColumnIsCommitted ==
    /\ [](\A id \in DocIds :
             Contains(id) =>
                /\ ColumnCommitted(documentMap[id])
                /\ documentMap[id].index \in slices[documentMap[id].slice].activeRow
                /\ slices[documentMap[id].slice].state = "live")
    /\ [][\A t \in Threads :
            /\ (threads'[t].op = "Add" /\ threads'[t].pc = "ingest"
                   /\ threads'[t] # threads[t]) =>
                  /\ threads[t].pc = "idle"
                  /\ allocLog'[threads'[t].slice] =
                        Append(allocLog[threads'[t].slice], threads'[t].index)
            /\ (threads'[t].op = "Add" /\ threads'[t].pc = "map"
                   /\ threads'[t] # threads[t]) =>
                  /\ threads[t].pc = "ingest"
                  /\ slices'[threads[t].slice].commitPending =
                        slices[threads[t].slice].commitPending - 1
                  /\ threads[t].index \in slices'[threads[t].slice].activeRow
            /\ \A id \in DocIds :
                  (documentMap'[id] # documentMap[id] /\ Find(documentMap', id)) =>
                     \E u \in Threads :
                        /\ threads[u].pc = "map" /\ threads[u].id = id
                        /\ documentMap'[id] = [slice |-> threads[u].slice,
                                               index |-> threads[u].index]]_vars

\* An id is mapped to a column of a slice in which another Add holds a
\* column that is allocated and not yet committed.
C28_Witness ==
    \E id \in DocIds, t \in Threads :
        /\ Contains(id)
        /\ threads[t].pc = "ingest"
        /\ threads[t].slice = documentMap[id].slice
        /\ slices[threads[t].slice].commitPending > 0

\* Thread t is inside the part of Ingestor::Delete that runs under
\* m_deleteDocumentLock.
InLockedDelete(t) ==
    threads[t].op = "Delete" /\ threads[t].pc \notin {"idle", "del_lock"}

\* C29: Deletes that overlap are serialised by m_deleteDocumentLock: at most
\* one is between Find and its return; a Delete returns true exactly when its
\* Find saw the id mapped, it then removes that mapping (which is still the
\* one it found) and raises the expired count of the owning slice by exactly
\* one, once; a Delete whose Find saw nothing returns false and changes
\* neither the map nor a slice; and a mapping disappears in no other step.
C29_OneDeleteWins ==
    /\ [](\A t \in Threads :
             InLockedDelete(t) =>
                /\ deleteLock = t
                /\ \A u \in Threads \ {t} : ~InLockedDelete(u))
    /\ [][\A t \in Threads :
            /\ (threads[t].pc = "del_find" /\ threads'[t] # threads[t]) =>
                  /\ threads'[t].isFound = (documentMap[threads[t].id] # NoHandle)
                  /\ threads'[t].pc =
                        (IF threads'[t].isFound THEN "del_erase" ELSE "del_return")
                  /\ documentMap' = documentMap
                  /\ slices' = slices
            /\ (threads[t].pc = "del_erase" /\ threads'[t] # threads[t]) =>
                  /\ documentMap[threads[t].id] =
                        [slice |-> threads[t].slice, index |-> threads[t].index]
                  /\ documentMap'[threads[t].id] = NoHandle
                  /\ threads'[t].pc = "exp_expire"
                  /\ slices' = slices
            /\ (threads[t].op = "Delete" /\ threads[t].pc = "exp_expire"
                   /\ threads'[t] # threads[t]) =>
                  /\ slices'[threads[t].slice].expired =
                        slices[threads[t].slice].expired + 1
                  /\ \A s \in DOMAIN slices \ {threads[t].slice} :
                        slices'[s] = slices[s]
                  /\ threads'[t].pc # "exp_expire"
                  /\ threads'[t].isFound
            /\ (threads[t].op = "Delete" /\ threads[t].pc = "del_return"
                   /\ threads'[t] # threads[t]) =>
                  /\ threads[t].isFound = threads[t].expireCalled
                  /\ threads'[t].pc = "idle"
                  /\ documentMap' = documentMap
                  /\ slices' = slices
            /\ \A id \in DocIds :
                  (Find(documentMap, id) /\ ~Find(documentMap', id)) =>
                     \E u \in Threads :
                        /\ threads[u].pc = "del_erase"
                        /\ threads[u].id = id
                        /\ threads'[u].pc = "exp_expire"]_vars

\* Two Deletes of the same id overlap: one has found and removed the mapping
\* and is about to return true, the other holds its token and waits for the
\* lock, and will find nothing.
C29_Witness ==
    \E t \in Threads : \E u \in Threads \ {t} :
        /\ threads[t].op = "Delete" /\ threads[t].pc = "del_return"
        /\ threads[t].isFound
        /\ threads[u].op = "Delete" /\ threads[u].pc = "del_lock"
        /\ threads[u].id = threads[t].id
        /\ ~Contains(threads[t].id)
        /\ slices[threads[t].slice].expired > 0

\* C30: Shard::AddPosting sets the bit of (row, docIndex) for every row of
\* the term's RowIdSequence and changes nothing else: every byte of the
\* buffer afterwards holds the bits it held before and the bits of those
\* rows that fall into it, the counters of the slice are as they were, and
\* a second call with the same arguments changes no bit.
C30_AddPostingSetsRowBits ==
    [][lastCall'.op = "AddPosting" =>
          /\ slices' = slices
          /\ \A ps \in {{BitPosition(buffer.shard, row, lastCall'.index) :
                            row \in lastCall'.rows}} :
             \A o \in DOMAIN buffer.mem :
                buffer'.mem[o] =
                   buffer.mem[o] \cup {p.bit : p \in {q \in ps : q.byte = o}}
          /\ AddPosting(buffer.shard, buffer'.mem, lastCall'.rows,
                        lastCall'.index) = buffer'.mem]_vars

\* AddPosting has just been called with a term of several rows: all of the
\* term's bits are set for the column and a row outside the term still has
\* its bit for that column clear.
C30_Witness ==
    /\ lastCall.op = "AddPosting"
    /\ Cardinality(lastCall.rows) > 1
    /\ \A row \in lastCall.rows :
          LET p == BitPosition(buffer.shard, row, lastCall.index)
          IN  p.bit \in buffer.mem[p.byte]
    /\ \E row \in RowIds(buffer.shard.termTable) \ lastCall.rows :
          LET p == BitPosition(buffer.shard, row, lastCall.index)
          IN  p.bit \notin buffer.mem[p.byte]

\* C31: a successful ExpireDocument returns true exactly when it has made
\* expired equal to the capacity; IsExpired() is false before that call and
\* true after it, stays true from then on, and becomes true in no other
\* way; on an expired Slice no ExpireDocument succeeds any more, so at most
\* one call returns true in the lifetime of a Slice.
C31_ExpireReturnsTrueOnce ==
    [][/\ (lastCall'.op = "ExpireDocument" /\ lastCall'.err = "none") =>
             /\ lastCall'.ret =
                   (slices'[lastCall'.slice].expired =
                       slices'[lastCall'.slice].capacity)
             /\ lastCall'.ret = IsExpired(slices'[lastCall'.slice])
             /\ ~IsExpired(slices[lastCall'.slice])
             /\ slices'[lastCall'.slice].expired =
                   slices[lastCall'.slice].expired + 1
       /\ \A s \in SliceIds :
             /\ IsExpired(slices[s]) =>
                   /\ IsExpired(slices'[s])
                   /\ (lastCall'.op = "ExpireDocument" /\ lastCall'.slice = s) =>
                         (lastCall'.err # "none" /\ ~lastCall'.ret)
             /\ (~IsExpired(slices[s]) /\ IsExpired(slices'[s])) =>
                   /\ lastCall'.op = "ExpireDocument"
                   /\ lastCall'.slice = s
                   /\ lastCall'.ret]_vars

\* The last ExpireDocument returned true and its Slice is expired, while an
\* earlier ExpireDocument on the other Slice succeeded without expiring it.
C31_Witness ==
    /\ lastCall.op = "ExpireDocument" /\ lastCall.ret
    /\ IsExpired(slices[lastCall.slice])
    /\ \E s \in SliceIds \ {lastCall.slice} :
          slices[s].expired > 0 /\ ~IsExpired(slices[s])

\* C32: on a constructed Shard the DocTable starts at offset 0, the
\* RowTable of rank 0 starts where the DocTable ends, the RowTable of each
\* further rank starts where the one before ends, and InitializeDescriptors
\* returns the end of the last RowTable plus one pointer size, which is at
\* most sliceBufferSize; so the regions are pairwise disjoint and none of
\* them reaches into the word of the Slice pointer at
\* sliceBufferSize - PointerSize.
C32_LayoutIsContiguous ==
    LET b == buffer.shard
        d == InitializeDescriptors(b.capacity, b.schema, b.termTable)
        size(r) == RowTableGetBufferSize(b.capacity, b.termTable.rowCount[r], r)
        region(from, n) == {o \in 0..(b.sliceBufferSize - 1) :
                              from <= o /\ o < from + n}
        regions == <<region(b.docTable,
                            DocTableGetBufferSize(b.capacity, b.schema))>>
                   \o [i \in 1..(MaxRankValue + 1) |->
                         region(b.rowTables[i], size(i - 1))]
                   \o <<region(GetSlicePtrOffset(b.sliceBufferSize),
                               PointerSize)>>
    IN  /\ b.docTable = 0 /\ d.docTable = 0
        /\ b.rowTables = d.rowTables
        /\ Len(b.rowTables) = MaxRankValue + 1
        /\ b.rowTables[1] = DocTableGetBufferSize(b.capacity, b.schema)
        /\ \A r \in 1..MaxRankValue :
              b.rowTables[r + 1] = b.rowTables[r] + size(r - 1)
        /\ d.sliceBufferSize =
              b.rowTables[MaxRankValue + 1] + size(MaxRankValue) + PointerSize
        /\ d.sliceBufferSize <= b.sliceBufferSize
        /\ Cardinality(regions[1]) =
              DocTableGetBufferSize(b.capacity, b.schema)
        /\ \A r \in Ranks : Cardinality(regions[r + 2]) = size(r)
        /\ Cardinality(regions[Len(regions)]) = PointerSize
        /\ \A i \in DOMAIN regions : \A j \in DOMAIN regions :
              i # j => regions[i] \cap regions[j] = {}

\* A Shard with a non-empty DocTable and a non-empty RowTable of rank 0 whose
\* tables end exactly where the word of the pointer begins, and whose buffer
\* has been written to.
C32_Witness ==
    /\ lastCall.op = "AddPosting"
    /\ buffer.shard.schema.recordSize > 0
    /\ buffer.shard.termTable.rowCount[0] > 0
    /\ buffer.shard.capacity > 0
    /\ InitializeDescriptors(buffer.shard.capacity, buffer.shard.schema,
                             buffer.shard.termTable).sliceBufferSize
          = buffer.shard.sliceBufferSize

\* C33: a phrase needs at least one token: an input that is, after an
\* optional stream name and ':', an opening quote, nothing but white space
\* and a closing quote, raises a ParseError.
C33_EmptyPhraseIsError ==
    lastCall.op = "Parse" =>
        \A k \in 1..Len(lastCall.input) :
            (/\ k < Len(lastCall.input)
             /\ lastCall.input[k] = "\""
             /\ lastCall.input[Len(lastCall.input)] = "\""
             /\ \A i \in (k + 1)..(Len(lastCall.input) - 1) :
                   lastCall.input[i] = " "
             /\ \/ k = 1
                \/ /\ k >= 3
                   /\ lastCall.input[k - 1] = ":"
                   /\ \A i \in 1..(k - 2) : \E n \in DOMAIN Letters :
                                               lastCall.input[i] = Letters[n])
            => lastCall.result.err = "ParseError"

\* C34: the file manager made by CreateFileManager(intermediateDirectory,
\* indexDirectory, backupDirectory) places DocFreqTable, IndexedIdfTable,
\* TermTable and TermToText in indexDirectory, CumulativeTermCounts and
\* DocumentLengthHistogram in intermediateDirectory, and WriteStatistics
\* writes each of its files there; nothing is placed in a backupDirectory
\* that is not also one of the other two.
C34_FilesInTheirDirectories ==
    lastCall.op # "none" =>
        /\ \A name \in {"DocFreqTable", "IndexedIdfTable", "TermTable",
                        "TermToText"} :
              lastCall.fileManager[name] = lastCall.indexDirectory
        /\ \A name \in {"CumulativeTermCounts", "DocumentLengthHistogram"} :
              lastCall.fileManager[name] = lastCall.intermediateDirectory
        /\ \A i \in DOMAIN lastCall.written :
              lastCall.written[i].directory =
                 IF lastCall.written[i].name \in {"DocFreqTable",
                                                  "IndexedIdfTable"}
                 THEN lastCall.indexDirectory
                 ELSE lastCall.intermediateDirectory
        /\ lastCall.backupDirectory \notin
              {lastCall.intermediateDirectory, lastCall.indexDirectory} =>
                 \A name \in DOMAIN lastCall.fileManager :
                    lastCall.fileManager[name] # lastCall.backupDirectory

\* C35: in every interleaving of Add and Delete calls, whenever the Ingestor
\* is about to call Expire on a column, ExpireDocument's precondition holds
\* (expired < committed), the column has been committed, its
\* document-active bit is still set (it has not been expired before), and no
\* other call is about to expire the same column; the call then raises the
\* expired count by one.
C35_ExpirePreconditionHolds ==
    /\ [](\A t \in Threads :
             threads[t].pc = "exp_expire" =>
                /\ slices[threads[t].slice].state = "live"
                /\ slices[threads[t].slice].expired <
                      CommittedCount(slices[threads[t].slice])
                /\ ColumnCommitted([slice |-> threads[t].slice,
                                    index |-> threads[t].index])
                /\ threads[t].index \in slices[threads[t].slice].activeRow
                /\ \A u \in Threads \ {t} :
                      threads[u].pc = "exp_expire" =>
                         (threads[u].slice # threads[t].slice
                             \/ threads[u].index # threads[t].index))
    /\ [][\A t \in Threads :
            (threads[t].pc = "exp_expire" /\ threads'[t] # threads[t]) =>
               /\ slices'[threads[t].slice].expired =
                     slices[threads[t].slice].expired + 1
               /\ threads[t].index \notin slices'[threads[t].slice].activeRow]_vars

\* An Add whose id was a duplicate and a Delete are both about to expire a
\* column of the same slice, which has exactly as many committed and not yet
\* expired columns as there are calls about to expire one.
C35_Witness ==
    \E t \in Threads : \E u \in Threads \ {t} :
        /\ threads[t].pc = "exp_expire" /\ threads[t].op = "Add"
        /\ threads[u].pc = "exp_expire" /\ threads[u].op = "Delete"
        /\ threads[t].slice = threads[u].slice
        /\ CommittedCount(slices[threads[t].slice])
              - slices[threads[t].slice].expired = 2

\* C36: of the slices whose buffers are in the published vector only the
\* active slice can have unallocated > 0: every other slice of the vector
\* is fully allocated, so at most one slice of the vector has a free column.
C36_OnlyActiveSliceHasFreeColumns ==
    \A vec \in {vectors[sliceBuffers].content} :
        /\ \A i \in DOMAIN vec :
              vec[i] # activeSlice => slices[vec[i]].unallocated = 0
        /\ Cardinality({i \in DOMAIN vec : slices[vec[i]].unallocated > 0}) <= 1

\* The published vector holds a slice that is full and no longer active
\* next to the active slice, which still has a free column.
C36_Witness ==
    /\ activeSlice # Null
    /\ slices[activeSlice].unallocated > 0
    /\ \E i \in DOMAIN vectors[sliceBuffers].content :
       \E j \in DOMAIN vectors[sliceBuffers].content :
          /\ vectors[sliceBuffers].content[i] = activeSlice
          /\ vectors[sliceBuffers].content[j] # activeSlice
          /\ slices[vectors[sliceBuffers].content[j]].unallocated = 0

\* C37: a Slice that RecycleSlice has removed stays removed: it is not the
\* active slice, its buffer is not in the published vector, and no
\* AllocateDocument hands out one of its columns; an AllocateDocument that
\* finds no active slice, as after the recycling of the active one, creates
\* a fresh Slice, makes it the active one and returns its column 0.
C37_RecycledSliceIsGone ==
    /\ [](\A s \in Recycled :
             /\ activeSlice # s
             /\ \A i \in DOMAIN vectors[sliceBuffers].content :
                   vectors[sliceBuffers].content[i] # s)
    /\ [][\A s \in SliceIds :
            /\ s \in Recycled => s \in Recycled'
            /\ allocLog'[s] # allocLog[s] =>
                  /\ s \notin Recycled
                  /\ activeSlice' = s
                  /\ activeSlice = Null =>
                        /\ slices[s].state = "unborn"
                        /\ slices'[s].state = "live"
                        /\ allocLog'[s] = <<0>>]_vars

\* The first slice was recycled while it was the active one, and the next
\* AllocateDocument has created the second slice, whose buffer is the only
\* one in the published vector.
C37_Witness ==
    /\ lastCall.op = "AllocateDocument"
    /\ 1 \in Recycled
    /\ activeSlice = 2
    /\ vectors[sliceBuffers].content = <<2>>
    /\ allocLog[2] = <<0>>
    /\ \E i \in DOMAIN vectors :
          /\ vectors[i].content = <<>>
          /\ i > 1

\* C38: Parse ends on every input, with a tree or with a ParseError, because
\* whatever a loop iteration or a recursive call goes through consumes input
\* or raises: from every position of every input, GetChar and GetWithEscape
\* (an iteration of ParseToken, the '|' of ParseOr, the '&' of ParseAnd, the
\* '-' and '(' of ParseSimple), ParseToken (an iteration of ParsePhrase),
\* ParseSimple (an iteration of ParseAnd), and with them ParseTerm,
\* ParsePhrase, ParseAnd and ParseOr, either raise or return at a position
\* further on that is within the input; SkipWhite never moves back.
C38_ParserAlwaysAdvances ==
    LET input == lastCall.input
        advances(r, pos) ==
            \/ r.err = "ParseError"
            \/ r.err = "none" /\ pos < r.pos /\ r.pos <= Len(input)
    IN  /\ \A pos \in 0..Len(input) :
              /\ advances(GetChar(input, pos), pos)
              /\ advances(GetWithEscape(input, pos), pos)
              /\ advances(ParseToken(input, pos), pos)
              /\ advances(ParsePhrase(input, pos, 0), pos)
              /\ advances(ParseTerm(input, pos), pos)
              /\ advances(ParseSimple(input, pos), pos)
              /\ advances(ParseAnd(input, pos), pos)
              /\ advances(ParseOr(input, pos), pos)
              /\ \A w \in {SkipWhite(input, pos)} :
                    w.err = "none" /\ pos <= w.pos /\ w.pos <= Len(input)
        /\ lastCall.op = "Parse" =>
              /\ lastCall.result = Parse(input)
              /\ advances(lastCall.result, 0)

\* Parse has returned a tree for an input of the full length whose And loop,
\* Or loop and phrase loop have all iterated.
C38_Witness ==
    /\ lastCall.op = "Parse"
    /\ lastCall.result.err = "none"
    /\ lastCall.result.pos = Len(lastCall.input)
    /\ lastCall.input = ExampleQuery
    /\ lastCall.result.value.type = "Or"
    /\ Len(lastCall.result.value.children) = 2

\* C39: when Parse returns a tree, what is left of the input is nothing or
\* begins with ')': Parse stops before no other character without raising,
\* and an unmatched ')' is left unread rather than rejected (the input a)
\* is the unigram a with the ')' left over).
C39_RemainderIsEmptyOrParen ==
    lastCall.op = "Parse" =>
        /\ lastCall.result.err = "none" =>
              /\ lastCall.result.pos <= Len(lastCall.input)
              /\ \/ lastCall.result.pos = Len(lastCall.input)
                 \/ lastCall.input[lastCall.result.pos + 1] = ")"
        /\ lastCall.input = <<"a", ")">> =>
              /\ lastCall.result.err = "none"
              /\ lastCall.result.pos = 1
              /\ lastCall.result.value = CreateUnigramNode(<<"a">>, 0)

\* Parse has returned a tree and has left an unmatched ')' and more unread.
C39_Witness ==
    /\ lastCall.op = "Parse"
    /\ lastCall.result.err = "none"
    /\ lastCall.result.pos + 1 < Len(lastCall.input)
    /\ lastCall.input[lastCall.result.pos + 1] = ")"
    /\ \A i \in 1..lastCall.result.pos : lastCall.input[i] # "("

\* C40: for a term table with a row of rank 0, GetCapacityForByteSize ends
\* for every schema and buffer size: it returns a capacity greater than 0,
\* or it fails with the fatal assertion, and it does that exactly when the
\* layout of one quantum of documents is larger than the buffer; it never
\* returns 0.
C40_CapacitySearchEnds ==
    (lastCall.op = "GetCapacityForByteSize"
        /\ lastCall.termTable.rowCount[0] > 0) =>
        /\ lastCall.outcome \in {"returns", "FatalAssert"}
        /\ lastCall.outcome = "returns" => lastCall.capacity > 0
        /\ lastCall.outcome = "FatalAssert" <=>
              SizeFor(DocumentsInRank0Row(1, GetMaxRankUsed(lastCall.termTable)))
                 > lastCall.bufferSizeInBytes

\* The search has ended with the fatal assertion for a term table with rows
\* of rank 0 and a buffer that has room for the pointer and more, but not
\* for one quantum.
C40_Witness ==
    /\ lastCall.op = "GetCapacityForByteSize"
    /\ lastCall.termTable.rowCount[0] > 0
    /\ lastCall.outcome = "FatalAssert"
    /\ lastCall.bufferSizeInBytes > PointerSize

====
